---- MODULE Spec2Model ----
(***************************************************************************)
(* corpus-packer (cpack): the directory walk, the include/exclude glob     *)
(* filter, the content transformer and the output sink chain of            *)
(* ProcessDirectory.                                                       *)
(*                                                                         *)
(* A Go string is a sequence of one-character strings; a []byte is a       *)
(* sequence of integers 0..255.  Bytes and Str are the []byte(s) and       *)
(* string(b) conversions the code makes at every io.Writer boundary.       *)
(***************************************************************************)
EXTENDS Integers, Sequences, FiniteSets, TLC

(***************************************************************************)
(* Characters and strings                                                  *)
(***************************************************************************)

\* The character of every byte value 0..255, in code order.  A byte with no
\* printable ASCII character (and the backquote) is written "xHH".
ByteChars ==
    <<
      "x00","x01","x02","x03","x04","x05","x06","x07","x08","\t","\n","x0B","x0C","x0D","x0E","x0F",
      "x10","x11","x12","x13","x14","x15","x16","x17","x18","x19","x1A","x1B","x1C","x1D","x1E","x1F",
      " ","!","\"","#","$","%","&","'","(",")","*","+",",","-",".","/",
      "0","1","2","3","4","5","6","7","8","9",":",";","<","=",">","?",
      "@","A","B","C","D","E","F","G","H","I","J","K","L","M","N","O",
      "P","Q","R","S","T","U","V","W","X","Y","Z","[","\\","]","^","_",
      "x60","a","b","c","d","e","f","g","h","i","j","k","l","m","n","o",
      "p","q","r","s","t","u","v","w","x","y","z","{","|","}","~","x7F",
      "x80","x81","x82","x83","x84","x85","x86","x87","x88","x89","x8A","x8B","x8C","x8D","x8E","x8F",
      "x90","x91","x92","x93","x94","x95","x96","x97","x98","x99","x9A","x9B","x9C","x9D","x9E","x9F",
      "xA0","xA1","xA2","xA3","xA4","xA5","xA6","xA7","xA8","xA9","xAA","xAB","xAC","xAD","xAE","xAF",
      "xB0","xB1","xB2","xB3","xB4","xB5","xB6","xB7","xB8","xB9","xBA","xBB","xBC","xBD","xBE","xBF",
      "xC0","xC1","xC2","xC3","xC4","xC5","xC6","xC7","xC8","xC9","xCA","xCB","xCC","xCD","xCE","xCF",
      "xD0","xD1","xD2","xD3","xD4","xD5","xD6","xD7","xD8","xD9","xDA","xDB","xDC","xDD","xDE","xDF",
      "xE0","xE1","xE2","xE3","xE4","xE5","xE6","xE7","xE8","xE9","xEA","xEB","xEC","xED","xEE","xEF",
      "xF0","xF1","xF2","xF3","xF4","xF5","xF6","xF7","xF8","xF9","xFA","xFB","xFC","xFD","xFE","xFF"
    >>

Range(s) == { s[i] : i \in DOMAIN s }

CharSet == Range(ByteChars)

\* the character of a byte value
Chr == [b \in 0..255 |-> ByteChars[b + 1]]

\* the byte value of a character
Ord == [c \in CharSet |-> (CHOOSE i \in DOMAIN ByteChars : ByteChars[i] = c) - 1]

\* []byte(s)
Bytes(s) == [i \in DOMAIN s |-> Ord[s[i]]]

\* string(b)
Str(b) == [i \in DOMAIN b |-> Chr[b[i]]]

IsUpper(c) == Ord[c] >= 65 /\ Ord[c] <= 90
IsDigit(c) == Ord[c] >= 48 /\ Ord[c] <= 57
IsWord(c) == IsDigit(c) \/ IsUpper(c) \/ (Ord[c] >= 97 /\ Ord[c] <= 122) \/ c = "_"
\* unicode.IsSpace on ASCII
IsSpace(c) == c \in {" ", "\n", "\t", "x0B", "x0C", "x0D"}

\* strings.ToLower on ASCII
ToLower(s) == [i \in DOMAIN s |-> IF IsUpper(s[i]) THEN Chr[Ord[s[i]] + 32] ELSE s[i]]

\* s[i:] with a 1-based first index
From(s, i) == SubSeq(s, i, Len(s))

\* whether sub occurs in s at position i
OccursAt(s, i, sub) ==
    /\ i + Len(sub) - 1 <= Len(s)
    /\ \A k \in 1..Len(sub) : s[i + k - 1] = sub[k]

HasPrefix(s, p) == OccursAt(s, 1, p)
HasSuffix(s, p) == Len(p) <= Len(s) /\ OccursAt(s, Len(s) - Len(p) + 1, p)
Contains(s, sub) == \E i \in 1..(Len(s) + 1) : OccursAt(s, i, sub)

\* A left-to-right loop over s[lo..hi] whose body, at position i, yields
\* Step(s, i) = [out, next] and continues at next: the concatenated outs and
\* the position the loop stands at after hi.  pos is the position the loop
\* stands at on entry (positions before it are skipped).
RECURSIVE Scan(_, _, _, _, _)
Scan(Step(_, _), s, lo, hi, pos) ==
    IF lo > hi THEN [out |-> <<>>, pos |-> pos]
    ELSE IF lo = hi THEN
        IF pos = lo
        THEN LET st == Step(s, lo) IN [out |-> st.out, pos |-> st.next]
        ELSE [out |-> <<>>, pos |-> pos]
    ELSE LET mid == (lo + hi) \div 2
             l == Scan(Step, s, lo, mid, pos)
             r == Scan(Step, s, mid + 1, hi, l.pos)
         IN [out |-> l.out \o r.out, pos |-> r.pos]

\* the loop over the whole of s
Loop(Step(_, _), s) == Scan(Step, s, 1, Len(s), 1).out

\* the first position of lo..hi where P holds, hi + 1 when there is none
First(P(_), lo, hi) ==
    IF \E j \in lo..hi : P(j)
    THEN CHOOSE j \in lo..hi : P(j) /\ \A k \in lo..(j - 1) : ~P(k)
    ELSE hi + 1

\* the first position at or after i where sub occurs, 0 when there is none
IndexFrom(s, i, sub) ==
    LET j == First(LAMBDA k : OccursAt(s, k, sub), i, Len(s) - Len(sub) + 1)
    IN IF j > Len(s) - Len(sub) + 1 THEN 0 ELSE j

\* strings.Count(s, sub) for a non-empty sub: non-overlapping occurrences
CountStep(s, i, sub) ==
    IF OccursAt(s, i, sub) THEN [out |-> <<i>>, next |-> i + Len(sub)]
    ELSE [out |-> <<>>, next |-> i + 1]

Count(s, sub) == Len(Loop(LAMBDA t, i : CountStep(t, i, sub), s))

\* strings.ReplaceAll(s, old, new) for a non-empty old: leftmost,
\* non-overlapping occurrences; s itself when old does not occur
ReplaceStep(s, i, old, new) ==
    IF OccursAt(s, i, old) THEN [out |-> new, next |-> i + Len(old)]
    ELSE [out |-> <<s[i]>>, next |-> i + 1]

ReplaceAll(s, old, new) ==
    IF ~Contains(s, old) THEN s
    ELSE Loop(LAMBDA t, i : ReplaceStep(t, i, old, new), s)

\* lexicographic byte order of two strings (the order of sort.Strings)
RECURSIVE StrLess(_, _)
StrLess(a, b) ==
    IF b = <<>> THEN FALSE
    ELSE IF a = <<>> THEN TRUE
    ELSE IF a[1] = b[1] THEN StrLess(Tail(a), Tail(b))
    ELSE Ord[a[1]] < Ord[b[1]]

\* strconv.Itoa for n >= 0
RECURSIVE Itoa(_)
Itoa(n) ==
    IF n < 10 THEN <<Chr[48 + n]>>
    ELSE Itoa(n \div 10) \o <<Chr[48 + (n % 10)]>>

\* strings.Join
RECURSIVE JoinRange(_, _, _, _)
JoinRange(parts, sep, lo, hi) ==
    IF lo > hi THEN <<>>
    ELSE IF lo = hi THEN parts[lo]
    ELSE LET mid == (lo + hi) \div 2
         IN JoinRange(parts, sep, lo, mid) \o sep \o JoinRange(parts, sep, mid + 1, hi)

Join(parts, sep) == JoinRange(parts, sep, 1, Len(parts))

\* strings.Split(s, sep) for a non-empty sep: each part runs from the end of
\* the previous separator to the next one
SplitStep(s, i, sep) ==
    LET e == IndexFrom(s, i, sep)
    IN IF e = 0 THEN [out |-> <<From(s, i)>>, next |-> Len(s) + 2]
       ELSE [out |-> <<SubSeq(s, i, e - 1)>>, next |-> e + Len(sep)]

Split(s, sep) ==
    Scan(LAMBDA t, i : SplitStep(t, i, sep), s, 1, Len(s) + 1, 1).out

\* strings.TrimSpace
RECURSIVE TrimLeft(_)
TrimLeft(s) == IF s # <<>> /\ IsSpace(s[1]) THEN TrimLeft(Tail(s)) ELSE s

RECURSIVE TrimRight(_)
TrimRight(s) ==
    IF s # <<>> /\ IsSpace(s[Len(s)]) THEN TrimRight(SubSeq(s, 1, Len(s) - 1)) ELSE s

TrimSpace(s) == TrimRight(TrimLeft(s))

(***************************************************************************)
(* path/filepath                                                           *)
(***************************************************************************)

\* the element stack filepath.Clean keeps while it scans the path
RECURSIVE CleanSegs(_, _, _)
CleanSegs(segs, rooted, out) ==
    IF segs = <<>> THEN out
    ELSE LET g == segs[1] IN
        IF g = <<>> \/ g = <<".">> THEN CleanSegs(Tail(segs), rooted, out)
        ELSE IF g = <<".", ".">> THEN
            IF out # <<>> /\ out[Len(out)] # <<".", ".">>
            THEN CleanSegs(Tail(segs), rooted, SubSeq(out, 1, Len(out) - 1))
            ELSE IF rooted THEN CleanSegs(Tail(segs), rooted, out)
            ELSE CleanSegs(Tail(segs), rooted, Append(out, g))
        ELSE CleanSegs(Tail(segs), rooted, Append(out, g))

\* filepath.Clean
Clean(p) ==
    IF p = <<>> THEN <<".">>
    ELSE LET rooted == p[1] = "/"
             body == Join(CleanSegs(Split(p, <<"/">>), rooted, <<>>), <<"/">>)
         IN IF rooted THEN <<"/">> \o body
            ELSE IF body = <<>> THEN <<".">>
            ELSE body

\* index of the last "/" of p, 0 when there is none
LastSlash(p) ==
    LET idx == { i \in DOMAIN p : p[i] = "/" }
    IN IF idx = {} THEN 0 ELSE CHOOSE i \in idx : \A j \in idx : j <= i

\* filepath.Ext: the suffix from the last "." of the last element
Ext(p) ==
    LET idx == { i \in DOMAIN p : p[i] = "." /\ i > LastSlash(p) }
    IN IF idx = {} THEN <<>>
       ELSE From(p, CHOOSE i \in idx : \A j \in idx : j <= i)

RECURSIVE StripSlashes(_)
StripSlashes(p) ==
    IF p # <<>> /\ p[Len(p)] = "/" THEN StripSlashes(SubSeq(p, 1, Len(p) - 1)) ELSE p

\* filepath.Base
Base(p) ==
    IF p = <<>> THEN <<".">>
    ELSE LET q == StripSlashes(p)
         IN IF q = <<>> THEN <<"/">> ELSE From(q, LastSlash(q) + 1)

\* filepath.Dir
Dir(p) == Clean(SubSeq(p, 1, LastSlash(p)))

\* filepath.Join of a directory's relative path and a name
JoinPath(d, name) == IF d = <<".">> THEN name ELSE d \o <<"/">> \o name

(***************************************************************************)
(* matchGlobPattern: the glob is rewritten into a regular expression,      *)
(* which is then matched against the whole path.                           *)
(***************************************************************************)

\* the characters regexp.QuoteMeta escapes
RegexSpecial == {"\\", ".", "+", "*", "?", "(", ")", "|", "[", "]", "{", "}", "^", "$"}

\* regexp.QuoteMeta
RECURSIVE QuoteMeta(_)
QuoteMeta(s) ==
    IF s = <<>> THEN <<>>
    ELSE (IF s[1] \in RegexSpecial THEN <<"\\", s[1]>> ELSE <<s[1]>>) \o QuoteMeta(Tail(s))

RxOptDirs == <<"(", "?", ":", ".", "*", "/", ")", "?">>
RxAny == <<".", "*">>
RxStar == <<"[", "^", "/", "]", "*">>
RxOne == <<"[", "^", "/", "]">>

\* the expression matchGlobPattern builds from a normalised pattern
\* (without the ^ and $ anchors, which MatchString's caller adds and
\* RegexMatch honours by matching the whole path)
GlobRegex(pattern) ==
    LET r0 == QuoteMeta(pattern)
        r1 == ReplaceAll(r0, <<"\\", "*", "\\", "*", "/">>, RxOptDirs)
        r2 == ReplaceAll(r1, <<"/", "\\", "*", "\\", "*", "/">>, <<"/">> \o RxOptDirs)
        r3 == ReplaceAll(r2, <<"\\", "*", "\\", "*">>, RxAny)
        r4 == ReplaceAll(r3, <<"\\", "*">>, RxStar)
    IN ReplaceAll(r4, <<"\\", "?">>, RxOne)

\* regexp.Compile, for the expressions GlobRegex can produce: the parsed
\* expression as a sequence of items
RECURSIVE RegexParse(_, _)
RegexParse(r, i) ==
    IF i > Len(r) THEN <<>>
    ELSE IF OccursAt(r, i, RxOptDirs)
        THEN <<[k |-> "optdirs", c |-> ""]>> \o RegexParse(r, i + Len(RxOptDirs))
    ELSE IF OccursAt(r, i, RxAny)
        THEN <<[k |-> "any", c |-> ""]>> \o RegexParse(r, i + Len(RxAny))
    ELSE IF OccursAt(r, i, RxStar)
        THEN <<[k |-> "star", c |-> ""]>> \o RegexParse(r, i + Len(RxStar))
    ELSE IF OccursAt(r, i, RxOne)
        THEN <<[k |-> "one", c |-> ""]>> \o RegexParse(r, i + Len(RxOne))
    ELSE IF r[i] = "\\" /\ i < Len(r)
        THEN <<[k |-> "lit", c |-> r[i + 1]]>> \o RegexParse(r, i + 2)
    ELSE <<[k |-> "lit", c |-> r[i]]>> \o RegexParse(r, i + 1)

\* whether items t[i..] match s[j..] entirely ("." does not match a newline)
RECURSIVE RegexMatch(_, _, _, _)
RegexMatch(t, i, s, j) ==
    IF i > Len(t) THEN j > Len(s)
    ELSE LET k == t[i].k IN
        IF k = "lit" THEN j <= Len(s) /\ s[j] = t[i].c /\ RegexMatch(t, i + 1, s, j + 1)
        ELSE IF k = "one" THEN j <= Len(s) /\ s[j] # "/" /\ RegexMatch(t, i + 1, s, j + 1)
        ELSE IF k = "star" THEN
            \E e \in j..(Len(s) + 1) :
                /\ \A m \in j..(e - 1) : s[m] # "/"
                /\ RegexMatch(t, i + 1, s, e)
        ELSE IF k = "any" THEN
            \E e \in j..(Len(s) + 1) :
                /\ \A m \in j..(e - 1) : s[m] # "\n"
                /\ RegexMatch(t, i + 1, s, e)
        ELSE \/ RegexMatch(t, i + 1, s, j)
             \/ \E e \in j..Len(s) :
                    /\ s[e] = "/"
                    /\ \A m \in j..(e - 1) : s[m] # "\n"
                    /\ RegexMatch(t, i + 1, s, e + 1)

\* pattern and path after matchGlobPattern's normalisation: both cleaned,
\* the extension of each lower-cased when both have one
NormPattern(pattern, path) ==
    LET p == Clean(pattern)
        q == Clean(path)
    IN IF Ext(p) # <<>> /\ Ext(q) # <<>>
       THEN SubSeq(p, 1, Len(p) - Len(Ext(p))) \o ToLower(Ext(p))
       ELSE p

\* the path matched as it was given, neither cleaned nor lower-cased
NormPath_AsGiven(pattern, path) == path

NormPath(pattern, path) ==
    LET p == Clean(pattern)
        q == Clean(path)
    IN IF Ext(p) # <<>> /\ Ext(q) # <<>>
       THEN SubSeq(q, 1, Len(q) - Len(Ext(q))) \o ToLower(Ext(q))
       ELSE q

\* whether a byte continues a UTF-8 sequence, its value within lo..hi
Continues(s, i, lo, hi) == i <= Len(s) /\ Ord[s[i]] >= lo /\ Ord[s[i]] <= hi

\* utf8.ValidString from position i on
RECURSIVE ValidUTF8(_, _)
ValidUTF8(s, i) ==
    IF i > Len(s) THEN TRUE
    ELSE LET b == Ord[s[i]] IN
        IF b < 128 THEN ValidUTF8(s, i + 1)
        ELSE IF b >= 194 /\ b <= 223
            THEN Continues(s, i + 1, 128, 191) /\ ValidUTF8(s, i + 2)
        ELSE IF b >= 224 /\ b <= 239
            THEN /\ Continues(s, i + 1, IF b = 224 THEN 160 ELSE 128,
                                        IF b = 237 THEN 159 ELSE 191)
                 /\ Continues(s, i + 2, 128, 191)
                 /\ ValidUTF8(s, i + 3)
        ELSE IF b >= 240 /\ b <= 244
            THEN /\ Continues(s, i + 1, IF b = 240 THEN 144 ELSE 128,
                                        IF b = 244 THEN 143 ELSE 191)
                 /\ Continues(s, i + 2, 128, 191)
                 /\ Continues(s, i + 3, 128, 191)
                 /\ ValidUTF8(s, i + 4)
        ELSE FALSE

\* whether regexp.Compile returns an error for the expression
\* matchGlobPattern builds: QuoteMeta and the rewriting leave no syntax to
\* get wrong, and what is left to refuse is text that is not UTF-8
CompileError(pattern, path) == ~ValidUTF8(GlobRegex(NormPattern(pattern, path)), 1)

\* matchGlobPattern whose callers take a rule that does not compile for a
\* rule that matches
matchGlobPattern_ErrorMatches(pattern, path) ==
    \/ CompileError(pattern, path)
    \/ RegexMatch(RegexParse(GlobRegex(NormPattern(pattern, path)), 1), 1,
                  NormPath(pattern, path), 1)

\* matchGlobPattern(pattern, path): the match result, false with the error
matchGlobPattern(pattern, path) ==
    /\ ~CompileError(pattern, path)
    /\ RegexMatch(RegexParse(GlobRegex(NormPattern(pattern, path)), 1), 1,
                  NormPath(pattern, path), 1)

(***************************************************************************)
(* The path filter                                                         *)
(***************************************************************************)

\* every file rule matched against the whole relative path
RuleSubject_FullPath(pattern, relPath) == relPath

\* the string a file rule is matched against: the base name for a rule
\* without "/", the whole relative path otherwise
RuleSubject(pattern, relPath) ==
    IF ~Contains(pattern, <<"/">>) THEN Base(relPath) ELSE relPath

\* fileProcessor.shouldIgnoreDir
shouldIgnoreDir(cfg, relPath) ==
    \E i \in DOMAIN cfg.ExcludeGlobs : matchGlobPattern(cfg.ExcludeGlobs[i], relPath)

\* one include pattern's verdict in isValidDir's loop
DirCouldMatch(pattern, relPathClean) ==
    IF Contains(pattern, <<"*", "*">>)
    THEN LET prefix == Split(pattern, <<"*", "*">>)[1]
         IN \/ prefix = <<>>
            \/ HasPrefix(relPathClean, prefix)
            \/ HasPrefix(prefix, relPathClean)
    ELSE LET patternDir == Dir(pattern)
         IN \/ patternDir = <<".">>
            \/ HasPrefix(relPathClean, patternDir)
            \/ HasPrefix(patternDir, relPathClean)

\* isValidDir without its first test: an empty include list lets no
\* directory but the root through
isValidDir_NeedsRule(cfg, relPath) ==
    \/ relPath = <<>>
    \/ relPath = <<".">>
    \/ \E i \in DOMAIN cfg.IncludeGlobs : DirCouldMatch(cfg.IncludeGlobs[i], Clean(relPath))

\* fileProcessor.isValidDir
isValidDir(cfg, relPath) ==
    \/ Len(cfg.IncludeGlobs) = 0
    \/ relPath = <<>>
    \/ relPath = <<".">>
    \/ \E i \in DOMAIN cfg.IncludeGlobs : DirCouldMatch(cfg.IncludeGlobs[i], Clean(relPath))

\* whether some exclude rule matches the file
ExcludeMatches(cfg, relPath) ==
    \E i \in DOMAIN cfg.ExcludeGlobs :
        matchGlobPattern(cfg.ExcludeGlobs[i], RuleSubject(cfg.ExcludeGlobs[i], relPath))

\* whether some include rule matches the file
IncludeMatches(cfg, relPath) ==
    \E i \in DOMAIN cfg.IncludeGlobs :
        matchGlobPattern(cfg.IncludeGlobs[i], RuleSubject(cfg.IncludeGlobs[i], relPath))

\* isValidFile with the include rules asked before the exclude rules
isValidFile_IncludeFirst(cfg, relPath) ==
    IF Len(cfg.IncludeGlobs) # 0 /\ IncludeMatches(cfg, relPath) THEN TRUE
    ELSE IF ExcludeMatches(cfg, relPath) THEN FALSE
    ELSE Len(cfg.IncludeGlobs) = 0

\* fileProcessor.isValidFile
isValidFile(cfg, relPath) ==
    IF ExcludeMatches(cfg, relPath) THEN FALSE
    ELSE IF Len(cfg.IncludeGlobs) = 0 THEN TRUE
    ELSE IncludeMatches(cfg, relPath)

\* fileProcessor.processDirectory: TRUE when it returns filepath.SkipDir
processDirectory(cfg, relPath) ==
    IF shouldIgnoreDir(cfg, relPath) THEN TRUE
    ELSE IF ~isValidDir(cfg, relPath) THEN TRUE
    ELSE FALSE

(***************************************************************************)
(* The content transformer                                                 *)
(***************************************************************************)

StartMarker == <<"-","-","-"," ","S","T","A","R","T"," ","O","F"," ","F","I","L","E",":">>
EndMarker == <<"-","-","-"," ","E","N","D"," ","O","F"," ","F","I","L","E",":">>

\* the end of the line that holds position i: the first "\n" at or after i,
\* or Len(s) + 1
LineEnd(s, i) == First(LAMBDA j : s[j] = "\n", i, Len(s))

\* ReplaceAllString of the expression //.* by the empty string
LineCommentStep(s, i) ==
    IF OccursAt(s, i, <<"/", "/">>) THEN [out |-> <<>>, next |-> LineEnd(s, i)]
    ELSE [out |-> <<s[i]>>, next |-> i + 1]

StripLineComments(s) == Loop(LineCommentStep, s)

\* ReplaceAllString of the expression (?s)/\*.*?\*/ by the empty string
BlockCommentStep(s, i) ==
    LET e == IndexFrom(s, i + 2, <<"*", "/">>)
    IN IF OccursAt(s, i, <<"/", "*">>) /\ e # 0 THEN [out |-> <<>>, next |-> e + 2]
       ELSE [out |-> <<s[i]>>, next |-> i + 1]

StripBlockComments(s) == Loop(BlockCommentStep, s)

\* removeComments
removeComments(str) == StripBlockComments(StripLineComments(str))

\* strings.Fields
FieldStep(s, i) ==
    IF IsSpace(s[i]) THEN [out |-> <<>>, next |-> i + 1]
    ELSE LET e == First(LAMBDA j : IsSpace(s[j]), i, Len(s))
         IN [out |-> <<SubSeq(s, i, e - 1)>>, next |-> e]

Fields(s) == Loop(FieldStep, s)

\* the symbols compressContent removes the spaces around, in its order
Symbols ==
    <<".", ",", ":", ";", ")", "(", "{", "}", "[", "]",
      "+", "-", "*", "/", "=", "<", ">", "&", "|", "!", "?">>

\* the loop over Symbols, from the k-th symbol on
RECURSIVE StripSymbolSpaces(_, _)
StripSymbolSpaces(str, k) ==
    IF k > Len(Symbols) \/ str = <<>> THEN str
    ELSE LET sym == Symbols[k]
             a == ReplaceAll(str, <<" ", sym, " ">>, <<sym>>)
             b == ReplaceAll(a, <<" ", sym>>, <<sym>>)
             c == ReplaceAll(b, <<sym, " ">>, <<sym>>)
         IN StripSymbolSpaces(c, k + 1)

\* the character classes \w, \s and \d
InClass(c, cls) ==
    IF cls = "w" THEN IsWord(c) ELSE IF cls = "s" THEN IsSpace(c) ELSE IsDigit(c)

\* the last position of the run of characters of class cls ("w", "s" or "d")
\* that starts at i; i - 1 when s[i] is not of the class
RunEnd(s, i, cls) == First(LAMBDA j : ~InClass(s[j], cls), i, Len(s)) - 1

\* ReplaceAllString of the expression (\w+)\s+(\d+) by $1$2
WordNumberStep(s, i) ==
    LET w == RunEnd(s, i, "w")
        sp == RunEnd(s, w + 1, "s")
        d == RunEnd(s, sp + 1, "d")
    IN IF w >= i /\ sp > w /\ d > sp
       THEN [out |-> SubSeq(s, i, w) \o SubSeq(s, sp + 1, d), next |-> d + 1]
       ELSE [out |-> <<s[i]>>, next |-> i + 1]

JoinWordNumber(s) == Loop(WordNumberStep, s)

\* compressContent, on and to a string
compressString(str, cfg) ==
    LET s1 == IF cfg.MaxCompress THEN removeComments(str) ELSE str
        s2 == Join(Fields(ReplaceAll(s1, <<"\n">>, <<" ">>)), <<" ">>)
        s3 == StripSymbolSpaces(s2, 1)
        s4 == JoinWordNumber(s3)
    IN IF ~cfg.Verbose
       THEN ReplaceAll(ReplaceAll(s4, StartMarker, <<>>), EndMarker, <<>>)
       ELSE s4

\* compressContent
compressContent(content, cfg) == Bytes(compressString(Str(content), cfg))

(***************************************************************************)
(* The sinks: encoding/base64's encoder, compress/gzip's writer, the file  *)
(***************************************************************************)

\* base64.StdEncoding's alphabet
B64Alphabet ==
    <<"A","B","C","D","E","F","G","H","I","J","K","L","M","N","O","P",
      "Q","R","S","T","U","V","W","X","Y","Z","a","b","c","d","e","f",
      "g","h","i","j","k","l","m","n","o","p","q","r","s","t","u","v",
      "w","x","y","z","0","1","2","3","4","5","6","7","8","9","+","/">>

B64Char(v) == Ord[B64Alphabet[v + 1]]
B64Pad == Ord["="]

\* the sextet of an alphabet byte, -1 for any other byte
B64Value ==
    [b \in 0..255 |->
        IF \E i \in DOMAIN B64Alphabet : Ord[B64Alphabet[i]] = b
        THEN (CHOOSE i \in DOMAIN B64Alphabet : Ord[B64Alphabet[i]] = b) - 1
        ELSE -1]

\* Encoding.Encode of whole 3-byte groups
B64GroupStep(d, i) ==
    IF i + 2 > Len(d) THEN [out |-> <<>>, next |-> Len(d) + 1]
    ELSE [out |-> <<B64Char(d[i] \div 4),
                    B64Char((d[i] % 4) * 16 + d[i + 1] \div 16),
                    B64Char((d[i + 1] % 16) * 4 + d[i + 2] \div 64),
                    B64Char(d[i + 2] % 64)>>,
          next |-> i + 3]

B64Groups(d) == Loop(B64GroupStep, d)

\* Encoding.Encode of a last group of one or two bytes, padded
B64Tail(r) ==
    IF Len(r) = 1
    THEN <<B64Char(r[1] \div 4), B64Char((r[1] % 4) * 16), B64Pad, B64Pad>>
    ELSE <<B64Char(r[1] \div 4),
           B64Char((r[1] % 4) * 16 + r[2] \div 16),
           B64Char((r[2] % 16) * 4),
           B64Pad>>

\* n as w little-endian bytes
RECURSIVE LittleEndian(_, _)
LittleEndian(n, w) ==
    IF w = 0 THEN <<>> ELSE <<n % 256>> \o LittleEndian(n \div 256, w - 1)

\* the sum of the bytes d[lo..hi]
RECURSIVE ByteSum(_, _, _)
ByteSum(d, lo, hi) ==
    IF lo > hi THEN 0
    ELSE IF lo = hi THEN d[lo]
    ELSE LET mid == (lo + hi) \div 2
         IN ByteSum(d, lo, mid) + ByteSum(d, mid + 1, hi)

\* the checksum of the gzip trailer.  CRC-32 is abstracted to the sum of the
\* bytes (under 2^31 for every content of this model, so no reduction modulo
\* 2^32 applies): the trailer depends on every byte written.
Checksum(d) == ByteSum(d, 1, Len(d))

\* the ten header bytes gzip.Writer writes: magic, deflate, no flags, no
\* modification time, no extra flags, unknown OS
GzipHeader == <<31, 139, 8, 0, 0, 0, 0, 0, 0, 255>>

\* the deflate stream of d, as one final stored block (RFC 1951, 3.2.4);
\* the compressor's choice of block coding is abstracted to this one
DeflateStored(d) ==
    <<1>> \o LittleEndian(Len(d), 2) \o LittleEndian(65535 - Len(d), 2) \o d

GzipTrailer(d) == LittleEndian(Checksum(d), 4) \o LittleEndian(Len(d), 4)

\* The state of the sinks of one run.  chain lists the writers from the one
\* the processor writes to down to the file.
NoSinks ==
    [chain |-> <<>>, file |-> <<>>, fileOpen |-> FALSE, closes |-> <<>>, writes |-> 0,
     b64buf |-> <<>>, b64err |-> FALSE,
     gzHeader |-> FALSE, gzData |-> <<>>, gzClosed |-> FALSE, gzErr |-> FALSE,
     err |-> FALSE]

\* (*os.File).Write: fails when the disk is full
FileWrite(st, p, full) ==
    IF p = <<>> THEN [st EXCEPT !.err = FALSE]
    ELSE IF full \/ ~st.fileOpen THEN [st EXCEPT !.err = TRUE]
    ELSE [st EXCEPT !.file = @ \o p, !.err = FALSE]

\* (*encoder).Write of encoding/base64: whole groups go to the writer below,
\* the rest waits in the encoder
B64Write(st, p, full) ==
    LET Keep(below, rest) ==
            IF below.err THEN [below EXCEPT !.b64err = TRUE]
            ELSE [below EXCEPT !.b64buf = rest]
        Encode(d, n) ==
            Keep(FileWrite(st, B64Groups(SubSeq(d, 1, n)), full), SubSeq(d, n + 1, Len(d)))
    IN IF st.b64err THEN [st EXCEPT !.err = TRUE]
       ELSE Encode(st.b64buf \o p, 3 * (Len(st.b64buf \o p) \div 3))

\* a Close of the encoder that drops the bytes that wait in it
B64Close_Dropped(st, full) ==
    [st EXCEPT !.err = st.b64err, !.closes = Append(@, "base64")]

\* (*encoder).Close of encoding/base64: the padded last group
B64Close(st, full) ==
    LET Closed(below) ==
            [below EXCEPT !.b64buf = IF st.b64err THEN @ ELSE <<>>,
                          !.b64err = below.err,
                          !.closes = Append(@, "base64")]
    IN Closed(IF ~st.b64err /\ st.b64buf # <<>>
              THEN FileWrite(st, B64Tail(st.b64buf), full)
              ELSE [st EXCEPT !.err = st.b64err])

\* a write of p by the writer at position k of the chain to the one below it
Below(st, k, p, full) ==
    IF st.chain[k + 1] = "base64" THEN B64Write(st, p, full)
    ELSE FileWrite(st, p, full)

\* (*gzip.Writer).Write: the header goes out with the first write, the data
\* waits in the compressor until Close
GzipWrite(st, k, p, full) ==
    LET Take(hdr) ==
            IF hdr.err THEN [hdr EXCEPT !.gzErr = TRUE]
            ELSE [hdr EXCEPT !.gzData = @ \o p]
    IN IF st.gzErr THEN [st EXCEPT !.err = TRUE]
       ELSE IF st.gzHeader THEN Take([st EXCEPT !.err = FALSE])
       ELSE Take([Below(st, k, GzipHeader, full) EXCEPT !.gzHeader = TRUE])

\* (*gzip.Writer).Close: the header if none was written, the deflate stream,
\* the trailer
GzipClose(st, k, full) ==
    LET Body(hdr) ==
            IF hdr.err THEN hdr ELSE Below(hdr, k, DeflateStored(hdr.gzData), full)
        Trailer(body) ==
            IF body.err THEN body ELSE Below(body, k, GzipTrailer(body.gzData), full)
        Closed(trl) ==
            [trl EXCEPT !.gzClosed = TRUE, !.gzErr = trl.err,
                        !.closes = Append(@, "gzip")]
    IN IF st.gzErr THEN [st EXCEPT !.err = TRUE, !.closes = Append(@, "gzip")]
       ELSE IF st.gzClosed THEN [st EXCEPT !.err = FALSE, !.closes = Append(@, "gzip")]
       ELSE Closed(Trailer(Body(GzipWrite(st, k, <<>>, full))))

\* writer.Write(p): a write to the first writer of the chain; writes counts
\* these calls
SinkWrite(st, p, full) ==
    LET Counted(s) == [s EXCEPT !.writes = st.writes + 1]
    IN IF st.chain[1] = "gzip" THEN Counted(GzipWrite(st, 1, p, full))
       ELSE IF st.chain[1] = "base64" THEN Counted(B64Write(st, p, full))
       ELSE Counted(FileWrite(st, p, full))

\* the bytes of the four-character group of t at i; <<-1>> for a group
\* that is not valid there (padding is valid in the last group only)
B64DecodeStep(t, i) ==
    IF i + 3 > Len(t) THEN [out |-> <<-1>>, next |-> Len(t) + 1]
    ELSE LET a == B64Value[t[i]]
             b == B64Value[t[i + 1]]
             c == B64Value[t[i + 2]]
             d == B64Value[t[i + 3]]
             last == i + 3 = Len(t)
             bytes ==
                 IF a < 0 \/ b < 0 THEN <<-1>>
                 ELSE IF last /\ t[i + 2] = B64Pad /\ t[i + 3] = B64Pad
                     THEN (IF b % 16 = 0 THEN <<a * 4 + b \div 16>> ELSE <<-1>>)
                 ELSE IF last /\ c >= 0 /\ t[i + 3] = B64Pad
                     THEN (IF c % 4 = 0
                           THEN <<a * 4 + b \div 16, (b % 16) * 16 + c \div 4>>
                           ELSE <<-1>>)
                 ELSE IF c < 0 \/ d < 0 THEN <<-1>>
                 ELSE <<a * 4 + b \div 16, (b % 16) * 16 + c \div 4, (c % 4) * 64 + d>>
         IN [out |-> bytes, next |-> i + 4]

\* base64.StdEncoding.Decode of a whole text: [ok, data]
B64Decode(t) ==
    LET r == Loop(B64DecodeStep, t)
    IN IF \A k \in DOMAIN r : r[k] >= 0 THEN [ok |-> TRUE, data |-> r]
       ELSE [ok |-> FALSE, data |-> <<>>]

\* the value of little-endian bytes
RECURSIVE FromLittleEndian(_)
FromLittleEndian(b) ==
    IF b = <<>> THEN 0 ELSE b[1] + 256 * FromLittleEndian(Tail(b))

\* gzip.NewReader and io.ReadAll on a whole file: [ok, data]
Gunzip(z) ==
    LET h == Len(GzipHeader)
        n == IF Len(z) >= h + 5 THEN FromLittleEndian(SubSeq(z, h + 2, h + 3)) ELSE 0
        data == SubSeq(z, h + 6, h + 5 + n)
    IN IF /\ Len(z) = h + 5 + n + 8
          /\ SubSeq(z, 1, h) = GzipHeader
          /\ z[h + 1] = 1
          /\ FromLittleEndian(SubSeq(z, h + 4, h + 5)) = 65535 - n
          /\ SubSeq(z, h + 6 + n, h + 9 + n) = LittleEndian(Checksum(data), 4)
          /\ SubSeq(z, h + 10 + n, h + 13 + n) = LittleEndian(n, 4)
       THEN [ok |-> TRUE, data |-> data]
       ELSE [ok |-> FALSE, data |-> <<>>]

(***************************************************************************)
(* Configuration                                                           *)
(***************************************************************************)

\* DefaultConfig().IncludeGlobs
DefaultIncludeGlobs ==
    <<<<"*","*","/","*",".","g","o">>,
      <<"*","*","/","*",".","j","s">>,
      <<"*","*","/","*",".","t","s">>,
      <<"*","*","/","*",".","c","s","s">>,
      <<"*","*","/","*",".","p","y">>,
      <<"*","*","/","*",".","j","a","v","a">>,
      <<"*","*","/","*",".","c","p","p">>,
      <<"*","*","/","*",".","c">>,
      <<"*","*","/","*",".","h">>,
      <<"*","*","/","*",".","h","p","p">>,
      <<"*","*","/","*",".","r","b">>,
      <<"*","*","/","*",".","p","h","p">>,
      <<"*","*","/","*",".","c","s">>,
      <<"*","*","/","*",".","s","w","i","f","t">>,
      <<"*","*","/","*",".","k","t">>,
      <<"*","*","/","*",".","m","d">>,
      <<"*","*","/","*",".","t","s","x">>,
      <<"*","*","/","*",".","j","s","x">>,
      <<"*","*","/","*",".","j","s","o","n">>,
      <<"*","*","/","*",".","{","y","a","m","l",",","y","m","l","}">>,
      <<"*","*","/","*",".","t","o","m","l">>,
      <<"*","*","/","*",".","t","x","t">>,
      <<"*","*","/","*",".","x","m","l">>,
      <<"*","*","/","*",".","{","d","o","c",",","d","o","c","x","}">>,
      <<"*","*","/","*",".","{","p","p","t",",","p","p","t","x","}">>,
      <<"*","*","/","*",".","{","x","l","s",",","x","l","s","x","}">>,
      <<"*","*","/","*",".","p","d","f">>>>

\* DefaultConfig().ExcludeGlobs
DefaultExcludeGlobs ==
    <<<<"*","*","/","v","e","n","d","o","r","/","*","*">>,
      <<"*","*","/",".","g","i","t","/","*","*">>,
      <<"*","*","/",".","g","i","t","h","u","b","/","*","*">>,
      <<"*","*","/","n","o","d","e","_","m","o","d","u","l","e","s","/","*","*">>,
      <<"*","*","/","_","_","p","y","c","a","c","h","e","_","_","/","*","*">>,
      <<"*","*","/","b","i","n","/","*","*">>,
      <<"*","*","/","o","b","j","/","*","*">>,
      <<"*","*","/","b","u","i","l","d","/","*","*">>,
      <<"*","*","/","d","i","s","t","/","*","*">>,
      <<"*","*","/",".","v","i","t","e","p","r","e","s","s","/","*","*">>,
      <<"*","*","/",".","i","d","e","a","/","*","*">>,
      <<"*","*","/",".","v","s","c","o","d","e","/","*","*">>,
      <<"*","*","/","*",".","m","i","n",".","*">>,
      <<"*","*","/","*",".","m","a","p">>,
      <<"*","*","/","*",".","g","e","n","e","r","a","t","e","d",".","*">>>>

DefaultOutputName == <<"c","o","r","p","u","s","-","o","u","t",".","t","x","t">>

GzSuffix == <<".","g","z">>

\* ApplyDefaults.  A Config is a record; OutputFile is [dir, name], the
\* directory of the path and its last element; IncludeNil and ExcludeNil
\* tell a nil glob slice from an empty one.
ApplyDefaults(cfg) ==
    LET name == cfg.OutputFile.name
        named ==
            IF name = <<>>
            THEN IF cfg.Gzip THEN DefaultOutputName \o GzSuffix ELSE DefaultOutputName
            ELSE IF cfg.Gzip /\ ~HasSuffix(name, GzSuffix)
                             /\ ~Contains(name, GzSuffix \o <<".">>)
                THEN name \o GzSuffix
            ELSE name
    IN [cfg EXCEPT
           !.OutputFile = [dir |-> cfg.OutputFile.dir, name |-> named],
           !.IncludeGlobs = IF cfg.IncludeNil THEN DefaultIncludeGlobs ELSE @,
           !.IncludeNil = FALSE,
           !.ExcludeGlobs = IF cfg.ExcludeNil THEN DefaultExcludeGlobs ELSE @,
           !.ExcludeNil = FALSE]

\* the loops of validateConfig that clean the glob patterns
CleanGlobs(cfg) ==
    [cfg EXCEPT
        !.IncludeGlobs = [i \in DOMAIN @ |-> Clean(@[i])],
        !.ExcludeGlobs = [i \in DOMAIN @ |-> Clean(@[i])]]

\* the writers ProcessDirectory stacks on the file, from the one the
\* processor writes to down to the file
\* the chain with the base64 encoder made last, around the gzip writer
BuildChain_Base64Last(cfg) ==
    (IF cfg.Base64 THEN <<"base64">> ELSE <<>>)
        \o (IF cfg.Gzip THEN <<"gzip">> ELSE <<>>)
        \o <<"file">>

BuildChain(cfg) ==
    (IF cfg.Gzip THEN <<"gzip">> ELSE <<>>)
        \o (IF cfg.Base64 THEN <<"base64">> ELSE <<>>)
        \o <<"file">>

(***************************************************************************)
(* The file system a run sees                                              *)
(***************************************************************************)

File(text) == [kind |-> "file", content |-> Bytes(text), readable |-> TRUE, target |-> <<>>]
Unreadable(text) == [File(text) EXCEPT !.readable = FALSE]
Directory == [kind |-> "dir", content |-> <<>>, readable |-> TRUE, target |-> <<>>]
Symlink(to) == [kind |-> "symlink", content |-> <<>>, readable |-> TRUE, target |-> to]

Root == <<".">>
P_a == <<"a",".","g","o">>
P_at == <<"a","_","t",".","g","o">>
P_l == <<"l",".","g","o">>
P_s == <<"s">>
P_sb == <<"s","/","b",".","g","o">>
P_sup == <<"s","/","u","p">>
P_sgo == <<"s",".","g","o">>
P_v == <<"v">>
P_vc == <<"v","/","c",".","g","o">>

\* The input trees, by path relative to the input directory.  l.go is a
\* symlink to a.go (one file, two paths); s/up is a symlink to an ancestor
\* directory, or to its own directory; a_t.go is the test file of a.go.  In
\* the second tree a.go cannot be read, v/c.go quotes the line that opens
\* the block of s/b.go in a packed corpus, and there is s.go, an empty file
\* that the walk visits after s/b.go and that sorts before it.
Tree1 ==
    (Root :> Directory)
    @@ (P_a :> File(<<"p"," "," ","a","\n">>))
    @@ (P_at :> File(<<"t"," ","1">>))
    @@ (P_l :> Symlink(P_a))
    @@ (P_s :> Directory)
    @@ (P_sb :> File(<<"x"," ","="," ","1"," ","/","/"," ","c","\n">>))
    @@ (P_sup :> Symlink(Root))
    @@ (P_v :> Directory)
    @@ (P_vc :> File(<<"/","*"," ","v"," ","*","/"," ","y">>))

Tree2 ==
    (P_a :> Unreadable(<<"p"," "," ","a","\n">>))
    @@ (P_sgo :> File(<<>>))
    @@ (P_sup :> Symlink(P_s))
    @@ (P_vc :> File(<<"-","-","-"," ","S","T","A","R","T"," ","O","F"," ","F","I","L","E",":"," ","s","/","b",".","g","o"," ","-","-","-","\n">>))
    @@ Tree1

Trees == {Tree1, Tree2}

\* the directories an output file may be asked in: an existing directory that
\* holds earlier output, the input directory itself, a directory yet to be
\* made, one that is not writable, one that cannot be made, and one on a
\* read-only file system
OutDirs == {"o", "in", "new", "ro", "deny", "rofs"}

OutName == <<"o","u","t",".","t","x","t">>

OutPath(d, n) == [dir |-> d, name |-> n]

StaleOutput == Bytes(<<"o","l","d">>)

(***************************************************************************)
(* The configurations a run is started with                                *)
(***************************************************************************)

\* include and exclude lists, as given (validateConfig cleans them); in the
\* last one the first rule of each list is not UTF-8 and does not compile
RuleSets ==
    { [inc |-> <<<<"*","*","/","*",".","g","o">>>>, exc |-> <<<<".","/","*","_","t",".","g","o">>>>],
      [inc |-> <<<<"*","*","/","*",".","g","o">>>>, exc |-> <<<<"*","*","/","v","/","*","*">>>>],
      [inc |-> <<>>, exc |-> <<<<"s","/","b",".","g","o">>, <<"v">>>>],
      [inc |-> <<<<"s","/","*","*","/","*",".","g","o">>>>, exc |-> <<>>],
      [inc |-> <<<<"xFF",".","g","o">>, <<"*","*","/","*",".","g","o">>>>,
       exc |-> <<<<"xFF">>, <<"*","_","t",".","g","o">>>>] }

\* whether a run with this input and output directory gets as far as the walk
ReachesWalk(i, d) == i = "in" /\ d \in {"o", "in", "new"}

\* Every combination of rules and flags for the runs that reach the walk; a
\* run that returns before it reads neither the rules nor the content flags,
\* which are fixed for it.
Configs ==
    { c \in
        { [InputDir |-> i, OutputFile |-> OutPath(d, OutName),
           IncludeGlobs |-> r.inc, IncludeNil |-> FALSE,
           ExcludeGlobs |-> r.exc, ExcludeNil |-> FALSE,
           Verbose |-> v, Compress |-> c, MaxCompress |-> m, Gzip |-> g, Base64 |-> b] :
            i \in {"in", "missing"}, d \in OutDirs, r \in RuleSets,
            v \in BOOLEAN, c \in BOOLEAN, m \in BOOLEAN, g \in BOOLEAN, b \in BOOLEAN } :
        \/ ReachesWalk(c.InputDir, c.OutputFile.dir)
        \/ c.IncludeGlobs = <<>> /\ ~c.Verbose /\ ~c.Compress /\ ~c.MaxCompress }

\* the same invocation without the encoding flags
PlainOf(cfg) == [cfg EXCEPT !.Gzip = FALSE, !.Base64 = FALSE]

\* how many times the program is run in one behaviour
MaxRuns == 2

\* the values the rendered processing time takes
Durations == {<<"1","m","s">>, <<"2","m","s">>}

(***************************************************************************)
(* State                                                                   *)
(***************************************************************************)

VARIABLES
    tree,            \* the input directory's entries, by relative path
    diskFull,        \* whether a write to a file fails
    dirs,            \* the output directories that exist
    files,           \* the content of every file outside the input tree, by path
    pc,              \* where ProcessDirectory is
    given,           \* the Config the run was called with
    config,          \* config, as ProcessDirectory resolves it
    sinks,           \* the output file and the writers stacked on it
    contentBuffer,   \* the verbose run's bytes.Buffer
    processedFiles,  \* fileProcessor.processedFiles
    summary,         \* fileProcessor.summary
    todo,            \* the paths filepath.Walk has yet to visit, in order
    visited,         \* the paths processPath was called on, in order
    reads,           \* the paths os.ReadFile was called on
    result,          \* what ProcessDirectory returned
    before,          \* the files and directories when the run started
    history,         \* the runs that returned: the Config given and the result
    call             \* a function called on its own: its name, arguments, result

\* the state of a run of ProcessDirectory
runVars ==
    <<tree, diskFull, dirs, files, pc, given, config, sinks, contentBuffer,
      processedFiles, summary, todo, visited, reads, result, before, history>>

vars == <<runVars, call>>

\* no function has been called on its own
NoCall == [fn |-> "", args |-> <<>>, ret |-> <<>>]

NoConfig ==
    [InputDir |-> "", OutputFile |-> OutPath("", <<>>),
     IncludeGlobs |-> <<>>, IncludeNil |-> TRUE,
     ExcludeGlobs |-> <<>>, ExcludeNil |-> TRUE,
     Verbose |-> FALSE, Compress |-> FALSE, MaxCompress |-> FALSE,
     Gzip |-> FALSE, Base64 |-> FALSE]

NoSummary == [ProcessedFiles |-> <<>>, SkippedFiles |-> <<>>, TotalBytes |-> 0]

Init ==
    /\ tree \in Trees
    /\ diskFull \in BOOLEAN
    /\ dirs = {"o", "in", "ro"}
    /\ files = (OutPath("o", OutName) :> StaleOutput)
               @@ (OutPath("o", OutName \o GzSuffix) :> StaleOutput)
    /\ pc = "idle"
    /\ given = NoConfig
    /\ config = NoConfig
    /\ sinks = NoSinks
    /\ contentBuffer = <<>>
    /\ processedFiles = {}
    /\ summary = NoSummary
    /\ todo = <<>>
    /\ visited = <<>>
    /\ reads = {}
    /\ result = "none"
    /\ before = [files |-> files, dirs |-> dirs]
    /\ history = <<>>
    /\ call = NoCall

(***************************************************************************)
(* What the walk finds                                                     *)
(***************************************************************************)

\* the output files that lie in the input directory, by relative path
InsideFiles == { f.name : f \in { g \in DOMAIN files : g.dir = "in" } }

\* every path below the input directory
AllPaths == DOMAIN tree \cup InsideFiles

\* os.Lstat of a path below the input directory
Entry(relPath) ==
    IF relPath \in DOMAIN tree THEN tree[relPath]
    ELSE [kind |-> "file", content |-> files[OutPath("in", relPath)],
          readable |-> TRUE, target |-> <<>>]

\* os.ReadFile, which follows a symlink: [ok, content]
ReadFile(relPath) ==
    LET e == Entry(relPath)
        t == IF e.kind = "symlink" THEN Entry(e.target) ELSE e
    IN IF t.kind = "file" /\ t.readable
       THEN [ok |-> TRUE, content |-> t.content]
       ELSE [ok |-> FALSE, content |-> <<>>]

\* info.IsDir() had the walk taken its FileInfo from os.Stat, which follows a
\* symlink
IsDir_Followed(relPath) ==
    LET e == Entry(relPath)
    IN e.kind = "dir" \/ (e.kind = "symlink" /\ Entry(e.target).kind = "dir")

\* info.IsDir() of the FileInfo filepath.Walk passes, which it takes from
\* os.Lstat: a symlink is not a directory, whatever it points to
IsDir(relPath) == Entry(relPath).kind = "dir"

\* sort.Strings of a set of strings
RECURSIVE SortSet(_)
SortSet(S) ==
    IF S = {} THEN <<>>
    ELSE LET m == CHOOSE x \in S : \A y \in S \ {x} : StrLess(x, y)
         IN <<m>> \o SortSet(S \ {m})

\* sort.Strings of a list (which may hold a string twice)
RECURSIVE SortStrings(_)
SortStrings(l) ==
    IF l = <<>> THEN <<>>
    ELSE LET i == CHOOSE i \in DOMAIN l :
                      \A j \in DOMAIN l : l[i] = l[j] \/ StrLess(l[i], l[j])
             rest == [k \in 1..(Len(l) - 1) |-> IF k < i THEN l[k] ELSE l[k + 1]]
         IN <<l[i]>> \o SortStrings(rest)

\* readDirNames: the entries of a directory, sorted, as relative paths
ReadDir(relPath) == SortSet({ p \in AllPaths : p # Root /\ Dir(p) = relPath })

(***************************************************************************)
(* ProcessDirectory, step by step                                          *)
(***************************************************************************)

ErrNoInput == "input directory does not exist"
ErrMkdir == "error creating output directory"
ErrCreate == "error creating output file"
ErrBase64 == "--base64 requires --gzip"
ErrSeparator == "error writing separator to output file"
ErrContent == "error writing content to output file"
\* writeSummary returns the error of the writer as it is, with no text of its own
ErrSummary == "write failed"
ErrFlush == "error writing file content"
ErrGzipClose == "error closing gzip writer"
ErrBase64Close == "error closing base64 encoder"

\* the file the run writes
Out == config.OutputFile

\* a return without the deferred outputFile.Close()
Return_FileOpen(res, st) ==
    /\ result' = res
    /\ pc' = "idle"
    /\ history' = Append(history, [given |-> given, config |-> config, result |-> res])
    /\ sinks' = st
    /\ files' = IF st.fileOpen THEN [files EXCEPT ![Out] = st.file] ELSE files


\* ProcessDirectory returns res with the sinks in state st: the deferred
\* outputFile.Close() runs if the file was opened
Return(res, st) ==
    /\ result' = res
    /\ pc' = "idle"
    /\ history' = Append(history, [given |-> given, config |-> config, result |-> res])
    /\ sinks' = IF st.fileOpen
                THEN [st EXCEPT !.fileOpen = FALSE, !.closes = Append(@, "file")]
                ELSE st
    /\ files' = IF st.fileOpen THEN [files EXCEPT ![Out] = st.file] ELSE files

\* the sinks move to state st and the run goes on at label next
Continue(next, st) ==
    /\ pc' = next
    /\ sinks' = st
    /\ files' = [files EXCEPT ![Out] = st.file]
    /\ UNCHANGED <<result, history>>

\* ProcessDirectory is called: the defaults are applied and the output path
\* is made absolute.  The first run takes any configuration; a later one
\* repeats the invocation before it without its encoding flags.
Start(cfg) ==
    /\ pc = "idle"
    /\ Len(history) < MaxRuns
    /\ cfg \in (IF history = <<>> THEN Configs ELSE {PlainOf(given)} \ {given})
    /\ given' = cfg
    /\ config' = ApplyDefaults(cfg)
    /\ pc' = "validate"
    /\ sinks' = NoSinks
    /\ contentBuffer' = <<>>
    /\ processedFiles' = {}
    /\ summary' = NoSummary
    /\ todo' = <<>>
    /\ visited' = <<>>
    /\ reads' = {}
    /\ result' = "none"
    /\ before' = [files |-> files, dirs |-> dirs]
    /\ UNCHANGED <<call, tree, diskFull, dirs, files, history>>

\* validateConfig without its os.Stat of the input directory
InputExists_Unchecked(cfg) == TRUE

\* whether validateConfig finds the input directory
InputExists(cfg) == cfg.InputDir = "in"

\* validateConfig: the input directory must exist; the globs are cleaned
Validate ==
    /\ pc = "validate"
    /\ IF ~InputExists(config)
       THEN /\ Return(ErrNoInput, sinks)
            /\ UNCHANGED config
       ELSE /\ config' = CleanGlobs(config)
            /\ pc' = "mkdir"
            /\ UNCHANGED <<result, history, sinks, files>>
    /\ UNCHANGED <<call, tree, diskFull, dirs, given, contentBuffer, processedFiles,
                   summary, todo, visited, reads, before>>

\* os.MkdirAll of the output file's directory
Mkdir ==
    /\ pc = "mkdir"
    /\ IF Out.dir = "rofs"
       THEN Return(ErrCreate, sinks) /\ UNCHANGED dirs
       ELSE IF Out.dir = "deny"
       THEN Return(ErrMkdir, sinks) /\ UNCHANGED dirs
       ELSE /\ dirs' = dirs \cup {Out.dir}
            /\ pc' = "create"
            /\ UNCHANGED <<result, history, sinks, files>>
    /\ UNCHANGED <<call, tree, diskFull, given, config, contentBuffer, processedFiles,
                   summary, todo, visited, reads, before>>

\* os.Create of the output file, which truncates a file that exists
Create ==
    /\ pc = "create"
    /\ IF Out.dir = "ro"
       THEN Return(ErrCreate, sinks)
       ELSE /\ files' = (Out :> <<>>) @@ files
            /\ sinks' = [NoSinks EXCEPT !.fileOpen = TRUE, !.chain = <<"file">>]
            /\ pc' = "chain"
            /\ UNCHANGED <<result, history>>
    /\ UNCHANGED <<call, tree, diskFull, dirs, given, config, contentBuffer,
                   processedFiles, summary, todo, visited, reads, before>>

\* ProcessDirectory without its test of the two encoding flags
Base64WithoutGzip_Unchecked(cfg) == FALSE

\* the test ProcessDirectory makes before it stacks the base64 encoder
Base64WithoutGzip(cfg) == cfg.Base64 /\ ~cfg.Gzip

\* the writer chain is built, the processor is made and filepath.Walk starts
\* at the input directory
Chain ==
    /\ pc = "chain"
    /\ IF Base64WithoutGzip(config)
       THEN Return(ErrBase64, sinks) /\ UNCHANGED todo
       ELSE /\ Continue("walk", [sinks EXCEPT !.chain = BuildChain(config)])
            /\ todo' = <<Root>>
    /\ UNCHANGED <<call, tree, diskFull, dirs, given, config, contentBuffer,
                   processedFiles, summary, visited, reads, before>>

\* the three writes of a file block to the writer chain; the first failure
\* ends them
WriteBlock(st, startSeparator, content, endSeparator) ==
    LET Result(s, msg) == [st |-> s, msg |-> IF s.err THEN msg ELSE ""]
        Write(w, p, msg) ==
            IF w.msg # "" THEN w ELSE Result(SinkWrite(w.st, p, diskFull), msg)
    IN Write(Write(Write([st |-> st, msg |-> ""],
                         Bytes(startSeparator), ErrSeparator),
                   content, ErrContent),
             Bytes(endSeparator), ErrSeparator)

StartOfFile == <<"-","-","-"," ","S","T","A","R","T"," ","O","F"," ","F","I","L","E",":"," ">>
EndOfFile == <<"-","-","-"," ","E","N","D"," ","O","F"," ","F","I","L","E",":"," ">>
MarkerEnd == <<" ", "-", "-", "-">>
ReadErrorNote == <<" ","(","r","e","a","d"," ","e","r","r","o","r",")">>

\* the separators of a file block, as processFile writes them
StartSeparator(cfg, relPath) ==
    LET sep == StartOfFile \o relPath \o MarkerEnd \o <<"\n">>
    IN IF cfg.Compress THEN TrimSpace(sep) \o <<" ">> ELSE sep

\* an end separator that repeats the line that opens the block
EndSeparator_Opening(cfg, relPath) == <<"\n">> \o StartSeparator(cfg, relPath)

EndSeparator(cfg, relPath) ==
    LET sep == <<"\n">> \o EndOfFile \o relPath \o MarkerEnd \o <<"\n", "\n">>
    IN IF cfg.Compress THEN <<" ">> \o TrimSpace(sep) \o <<" ">> ELSE sep

\* the content of a file block
BlockContent(cfg, content) ==
    IF cfg.Compress THEN compressContent(content, cfg) ELSE content

\* processFile dropping a rejected file without a record
SkipFile_Silent(relPath) ==
    /\ todo' = Tail(todo)
    /\ UNCHANGED <<pc, result, history, sinks, files, contentBuffer,
                   processedFiles, reads, summary>>

\* fileProcessor.processFile on a file the filter rejects
SkipFile(relPath) ==
    /\ summary' = [summary EXCEPT !.SkippedFiles = Append(@, relPath)]
    /\ todo' = Tail(todo)
    /\ UNCHANGED <<pc, result, history, sinks, files, contentBuffer,
                   processedFiles, reads>>

\* processFile with every block written to the writer chain, also in a
\* verbose run
EmitBlock_Direct(relPath, startSeparator, content, endSeparator) ==
    \E w \in {WriteBlock(sinks, startSeparator, content, endSeparator)} :
        /\ UNCHANGED contentBuffer
        /\ IF w.msg # ""
           THEN /\ Return(w.msg, w.st)
                /\ UNCHANGED <<processedFiles, todo>>
           ELSE /\ Continue("walk", w.st)
                /\ processedFiles' = processedFiles \cup {relPath}
                /\ todo' = Tail(todo)

\* processFile putting the block of a verbose run in front of the blocks
\* already in the buffer
EmitBlock_Prepending(relPath, startSeparator, content, endSeparator) ==
    IF config.Verbose
    THEN /\ contentBuffer' =
                Bytes(startSeparator) \o content \o Bytes(endSeparator) \o contentBuffer
         /\ processedFiles' = processedFiles \cup {relPath}
         /\ todo' = Tail(todo)
         /\ UNCHANGED <<pc, result, history, sinks, files>>
    ELSE EmitBlock_Direct(relPath, startSeparator, content, endSeparator)

\* processFile's writes of a block, to the buffer of a verbose run or to the
\* writer chain
EmitBlock(relPath, startSeparator, content, endSeparator) ==
    IF config.Verbose
    THEN /\ contentBuffer' =
                contentBuffer \o Bytes(startSeparator) \o content \o Bytes(endSeparator)
         /\ processedFiles' = processedFiles \cup {relPath}
         /\ todo' = Tail(todo)
         /\ UNCHANGED <<pc, result, history, sinks, files>>
    ELSE \E w \in {WriteBlock(sinks, startSeparator, content, endSeparator)} :
            /\ UNCHANGED contentBuffer
            /\ IF w.msg # ""
               THEN /\ Return(w.msg, w.st)
                    /\ UNCHANGED <<processedFiles, todo>>
               ELSE /\ Continue("walk", w.st)
                    /\ processedFiles' = processedFiles \cup {relPath}
                    /\ todo' = Tail(todo)

\* processFile had it returned the error of os.ReadFile to filepath.Walk,
\* which ends the walk and the run with it
EmitFile_Aborting(relPath) ==
    \E rd \in {ReadFile(relPath)} :
        /\ reads' = reads \cup {relPath}
        /\ IF ~rd.ok
           THEN /\ Return("error reading file", sinks)
                /\ UNCHANGED <<summary, todo, contentBuffer, processedFiles>>
           ELSE /\ summary' = [summary EXCEPT !.ProcessedFiles = Append(@, relPath),
                                              !.TotalBytes = @ + Len(rd.content)]
                /\ EmitBlock(relPath, StartSeparator(config, relPath),
                             BlockContent(config, rd.content),
                             EndSeparator(config, relPath))

\* fileProcessor.processFile on a file the filter accepts
EmitFile(relPath) ==
    \E rd \in {ReadFile(relPath)} :
        /\ reads' = reads \cup {relPath}
        /\ IF ~rd.ok
           THEN /\ summary' = [summary EXCEPT
                                  !.SkippedFiles = Append(@, relPath \o ReadErrorNote)]
                /\ todo' = Tail(todo)
                /\ UNCHANGED <<pc, result, history, sinks, files, contentBuffer,
                               processedFiles>>
           ELSE /\ summary' = [summary EXCEPT !.ProcessedFiles = Append(@, relPath),
                                              !.TotalBytes = @ + Len(rd.content)]
                /\ EmitBlock(relPath, StartSeparator(config, relPath),
                             BlockContent(config, rd.content),
                             EndSeparator(config, relPath))

\* processPath on a directory whose SkipDir filepath.Walk does not honour:
\* the entries of a rejected directory are walked as well
VisitDir_Descending(relPath) ==
    /\ todo' = IF Entry(relPath).readable
               THEN ReadDir(relPath) \o Tail(todo)
               ELSE Tail(todo)
    /\ UNCHANGED <<pc, result, history, sinks, files, contentBuffer,
                   processedFiles, summary, reads>>

\* fileProcessor.processPath on a directory: filepath.Walk goes on with its
\* entries unless the directory cannot be read or processDirectory returns
\* SkipDir
VisitDir(relPath) ==
    /\ todo' = IF Entry(relPath).readable /\ ~processDirectory(config, relPath)
               THEN ReadDir(relPath) \o Tail(todo)
               ELSE Tail(todo)
    /\ UNCHANGED <<pc, result, history, sinks, files, contentBuffer,
                   processedFiles, summary, reads>>

\* filepath.Walk calls processPath on the next path
WalkStep ==
    /\ pc = "walk"
    /\ todo # <<>>
    /\ LET relPath == Head(todo)
       IN /\ visited' = Append(visited, relPath)
          /\ IF relPath \in processedFiles
             THEN /\ todo' = Tail(todo)
                  /\ UNCHANGED <<pc, result, history, sinks, files, contentBuffer,
                                 processedFiles, summary, reads>>
             ELSE IF IsDir(relPath) THEN VisitDir(relPath)
             ELSE IF ~isValidFile(config, relPath) THEN SkipFile(relPath)
             ELSE EmitFile(relPath)
    /\ UNCHANGED <<call, tree, diskFull, dirs, given, config, before>>

\* the next step once the content is in the writer chain
AfterContent == IF config.Gzip THEN "closeGzip" ELSE "return"

\* filepath.Walk returns nil
WalkEnd ==
    /\ pc = "walk"
    /\ todo = <<>>
    /\ pc' = IF config.Verbose THEN "summary" ELSE AfterContent
    /\ UNCHANGED <<call, tree, diskFull, dirs, files, given, config, sinks, contentBuffer,
                   processedFiles, summary, todo, visited, reads, result, before,
                   history>>

\* the text writeSummary formats
SummaryText(sum, duration) ==
    <<"-","-","-"," ","C","O","R","P","U","S"," ","P","A","C","K","E","R"," ","S","U","M","M","A","R","Y"," ","-","-","-","\n","P","r","o","c","e","s","s","i","n","g"," ","T","i","m","e",":"," ">>
    \o duration
    \o <<"\n","T","o","t","a","l"," ","F","i","l","e","s",":"," ">>
    \o Itoa(Len(sum.ProcessedFiles) + Len(sum.SkippedFiles))
    \o <<"\n","T","o","t","a","l"," ","F","i","l","e","s"," ","P","r","o","c","e","s","s","e","d",":"," ">>
    \o Itoa(Len(sum.ProcessedFiles))
    \o <<"\n","T","o","t","a","l"," ","F","i","l","e","s"," ","S","k","i","p","p","e","d",":"," ">>
    \o Itoa(Len(sum.SkippedFiles))
    \o <<"\n","T","o","t","a","l"," ","B","y","t","e","s"," ","P","r","o","c","e","s","s","e","d",":"," ">>
    \o Itoa(sum.TotalBytes)
    \o <<"\n","\n","P","r","o","c","e","s","s","e","d"," ","F","i","l","e","s",":","\n">>
    \o Join(sum.ProcessedFiles, <<"\n">>)
    \o <<"\n","\n","S","k","i","p","p","e","d"," ","F","i","l","e","s",":","\n">>
    \o Join(sum.SkippedFiles, <<"\n">>)
    \o <<"\n","\n","-","-","-"," ","E","N","D"," ","O","F"," ","S","U","M","M","A","R","Y"," ","-","-","-","\n","\n">>

\* the summary's lists left in the order of the walk
SortedSummary_Unsorted(sum) == sum

\* the summary's lists after writeSummary has sorted them
SortedSummary(sum) ==
    [sum EXCEPT !.ProcessedFiles = SortStrings(@), !.SkippedFiles = SortStrings(@)]

\* the text writeSummary writes
SummaryOutput(sorted, duration) ==
    IF config.Compress THEN compressString(SummaryText(sorted, duration), config)
    ELSE SummaryText(sorted, duration)

\* fileProcessor.writeSummary
WriteSummary(duration) ==
    /\ pc = "summary"
    /\ summary' = SortedSummary(summary)
    /\ \E st \in {SinkWrite(sinks, Bytes(SummaryOutput(SortedSummary(summary), duration)), diskFull)} :
          IF st.err THEN Return(ErrSummary, st) ELSE Continue("flush", st)
    /\ UNCHANGED <<call, tree, diskFull, dirs, given, config, contentBuffer,
                   processedFiles, todo, visited, reads, before>>

\* writer.Write(contentBuffer.Bytes())
Flush ==
    /\ pc = "flush"
    /\ \E st \in {SinkWrite(sinks, contentBuffer, diskFull)} :
          IF st.err THEN Return(ErrFlush, st) ELSE Continue(AfterContent, st)
    /\ UNCHANGED <<call, tree, diskFull, dirs, given, config, contentBuffer,
                   processedFiles, summary, todo, visited, reads, before>>

\* gzipWriter.Close()
CloseGzip ==
    /\ pc = "closeGzip"
    /\ \E st \in {GzipClose(sinks, 1, diskFull)} :
          IF st.err THEN Return(ErrGzipClose, st)
          ELSE Continue(IF config.Base64 THEN "closeBase64" ELSE "return", st)
    /\ UNCHANGED <<call, tree, diskFull, dirs, given, config, contentBuffer,
                   processedFiles, summary, todo, visited, reads, before>>

\* base64Writer.Close()
CloseBase64 ==
    /\ pc = "closeBase64"
    /\ \E st \in {B64Close(sinks, diskFull)} :
          IF st.err THEN Return(ErrBase64Close, st) ELSE Continue("return", st)
    /\ UNCHANGED <<call, tree, diskFull, dirs, given, config, contentBuffer,
                   processedFiles, summary, todo, visited, reads, before>>

\* return nil
ReturnNil ==
    /\ pc = "return"
    /\ Return("ok", sinks)
    /\ UNCHANGED <<call, tree, diskFull, dirs, given, config, contentBuffer,
                   processedFiles, summary, todo, visited, reads, before>>

Next ==
    \/ \E cfg \in Configs : Start(cfg)
    \/ Validate
    \/ Mkdir
    \/ Create
    \/ Chain
    \/ WalkStep
    \/ WalkEnd
    \/ \E d \in Durations : WriteSummary(d)
    \/ Flush
    \/ CloseGzip
    \/ CloseBase64
    \/ ReturnNil

Spec == Init /\ [][Next]_vars

(***************************************************************************)
(* The functions of the filter and of the configuration, called on their   *)
(* own                                                                     *)
(***************************************************************************)

\* every string over the alphabet A of length n at most
RECURSIVE StringsUpTo(_, _)
StringsUpTo(A, n) ==
    IF n = 0 THEN {<<>>}
    ELSE LET S == StringsUpTo(A, n - 1)
         IN S \cup { Append(s, c) : s \in S, c \in A }

\* every sequence over the set A of length n at most
RECURSIVE ListsUpTo(_, _)
ListsUpTo(A, n) ==
    IF n = 0 THEN {<<>>}
    ELSE LET S == ListsUpTo(A, n - 1)
         IN S \cup { Append(s, c) : s \in S, c \in A }

\* how many directories deep a path is taken
MaxDepth == 3

\* how long the literal patterns and paths are that are taken exhaustively
MaxLiteralLen == 2

GoPattern == <<"*","*","/","*",".","g","o">>

\* directory names: plain, hidden, with an extension, with a line break
DirNames == { <<"a">>,
      <<".","b">>,
      <<"C",".","d">>,
      <<"n","\n","l">> }

\* file names without their .go
GoStems == { <<>>,
      <<"a">>,
      <<"x",".","y">> }

\* the paths ending in .go, zero to MaxDepth directories deep
GoPaths ==
    { Join(above \o <<stem \o <<".","g","o">>>>, <<"/">>) :
        above \in ListsUpTo(DirNames, MaxDepth), stem \in GoStems }

\* patterns and paths without * and ?: every short string over a small
\* alphabet, and longer ones with the characters regular expressions give a
\* meaning to, with extensions in both cases, with paths to clean, and one
\* that is not UTF-8
Literals ==
    StringsUpTo({"a", "B", ".", "/", "+"}, MaxLiteralLen)
    \cup { <<"a",".","b">>,
      <<"a","x","b">>,
      <<"a","+">>,
      <<"a","a">>,
      <<"A",".","B">>,
      <<"A",".","b">>,
      <<".","/","a",".","b">>,
      <<"a","/","/","B">>,
      <<"[","a","]">>,
      <<"a","$">>,
      <<"^","a">>,
      <<"a","|","B">>,
      <<"a",".","b",".","C">>,
      <<"a",".","b",".","c">>,
      <<"a","/",".",".","/","B">>,
      <<"(","a",")">>,
      <<"a","\\">>,
      <<"a","{","1","}">>,
      <<"a","\n","b">> }
    \cup { <<"a", "xFF">> }

YamlPattern == <<"*","*","/","*",".","{","y","a","m","l",",","y","m","l","}">>
SourcesPattern == <<"s","r","c","/","*","*","/","*",".","{","g","o",",","p","y",",","j","s","}">>

BracePatterns == {YamlPattern, SourcesPattern}

BracePaths == { <<"a",".","y","a","m","l">>,
      <<"d","/","a",".","y","m","l">>,
      <<"s","r","c","/","a",".","g","o">>,
      <<"s","r","c","/","p","/","a",".","p","y">>,
      <<"s","r","c","/","a",".","j","s">>,
      <<"a",".","{","y","a","m","l",",","y","m","l","}">>,
      <<"s","r","c","/","a",".","{","g","o",",","p","y",",","j","s","}">>,
      <<"a",".","t","x","t">>,
      <<"s","r","c","/","p","/","a",".","{","g","o",",","p","y",",","j","s","}">> }

\* the calls of matchGlobPattern that are made
GlobCases ==
    ({GoPattern} \X GoPaths) \cup (Literals \X Literals) \cup (BracePatterns \X BracePaths)

\* matchGlobPattern(pattern, path) is called
CallMatch(pattern, path) ==
    /\ call = NoCall
    /\ call' = [fn |-> "matchGlobPattern",
                args |-> <<pattern, path>>,
                ret |-> [matched |-> matchGlobPattern(pattern, path),
                         err |-> CompileError(pattern, path)]]
    /\ UNCHANGED runVars

\* file rules, with and without a "/"
RulePatterns == { <<"*",".","g","o">>,
      <<"b",".","g","o">>,
      <<"*","_","t",".","g","o">>,
      <<"s","/","*",".","g","o">>,
      <<"s","/","b",".","g","o">>,
      <<"*","*","/","*",".","g","o">>,
      <<"s","/","*","*">>,
      <<"t">> }

\* the rule lists of a Config: one rule in one of the lists, or one in each
RuleLists ==
    { [inc |-> <<p>>, exc |-> <<>>] : p \in RulePatterns }
    \cup { [inc |-> <<>>, exc |-> <<p>>] : p \in RulePatterns }
    \cup { [inc |-> <<p>>, exc |-> <<q>>] : p \in RulePatterns, q \in RulePatterns }

\* a Config with these rules
WithRules(r) ==
    [NoConfig EXCEPT !.InputDir = "in",
                     !.IncludeGlobs = r.inc, !.IncludeNil = FALSE,
                     !.ExcludeGlobs = r.exc, !.ExcludeNil = FALSE]

\* the relative paths of files the filter is asked about
FilePaths == { <<"a",".","g","o">>,
      <<"b",".","g","o">>,
      <<"s","/","b",".","g","o">>,
      <<"s","/","t","/","b",".","g","o">>,
      <<"s","/","a","_","t",".","g","o">>,
      <<"v","/","t">>,
      <<"t","/","x",".","m","d">> }

\* fileProcessor.isValidFile(relPath, path) is called on a processor with
\* the Config cfg
CallIsValidFile(cfg, relPath) ==
    /\ call = NoCall
    /\ call' = [fn |-> "isValidFile",
                args |-> <<cfg, relPath>>,
                ret |-> isValidFile(cfg, relPath)]
    /\ UNCHANGED runVars

\* include rules tried on directories: with and without "**", with a
\* literal directory part and with a wildcard in it
DirIncludePatterns == { <<"*",".","g","o">>,
      <<"*","*","/","*",".","g","o">>,
      <<"s","/","*",".","g","o">>,
      <<"s","/","*","*","/","*",".","g","o">>,
      <<"s","/","t","/","*",".","g","o">>,
      <<"*","/","b",".","g","o">>,
      <<"s","/","*","/","b",".","g","o">>,
      <<"s","*","/","*","*","/","*",".","g","o">>,
      <<"t">> }

\* exclude lists tried on directories
DirExcludeLists == { <<>>, <<<<"v">>>>, <<<<"*">>>>, <<<<".","*">>>>, <<<<"*","*","/","t","/","*","*">>>> }

\* the rule lists the directory filter is called with: no include rule, or
\* one
DirRuleLists ==
    { [inc |-> <<>>, exc |-> e] : e \in DirExcludeLists }
    \cup { [inc |-> <<p>>, exc |-> e] : p \in DirIncludePatterns, e \in DirExcludeLists }

\* the relative paths of directories: the root as filepath.Rel gives it and
\* as the empty string, and directories one and two levels down
DirPaths == { <<".">>,
      <<>>,
      <<"s">>,
      <<"s","/","t">>,
      <<"v">>,
      <<"t">> }

\* fileProcessor.processDirectory(relPath) is called on a processor with the
\* Config cfg: whether it returns filepath.SkipDir, and what the two tests
\* it makes return
CallProcessDirectory(cfg, relPath) ==
    /\ call = NoCall
    /\ call' = [fn |-> "processDirectory",
                args |-> <<cfg, relPath>>,
                ret |-> [skipDir |-> processDirectory(cfg, relPath),
                         ignored |-> shouldIgnoreDir(cfg, relPath),
                         valid |-> isValidDir(cfg, relPath)]]
    /\ UNCHANGED runVars

\* isEmptyConfig: InputDir is not looked at
isEmptyConfig(cfg) ==
    /\ cfg.OutputFile = OutPath("", <<>>)
    /\ Len(cfg.IncludeGlobs) = 0
    /\ Len(cfg.ExcludeGlobs) = 0
    /\ ~cfg.Verbose
    /\ ~cfg.Compress
    /\ ~cfg.MaxCompress
    /\ ~cfg.Gzip
    /\ ~cfg.Base64

\* MergeConfig(config, autoConfig); the pointer autoConfig is <<>> when nil
\* and <<c>> when it points to the Config c
MergeConfig(cfg, autoConfig) ==
    IF autoConfig = <<>> THEN cfg
    ELSE IF isEmptyConfig(cfg)
    THEN IF cfg.InputDir # "" THEN [autoConfig[1] EXCEPT !.InputDir = cfg.InputDir]
         ELSE autoConfig[1]
    ELSE LET auto == autoConfig[1]
             noInclude == Len(cfg.IncludeGlobs) = 0
             noExclude == Len(cfg.ExcludeGlobs) = 0
         IN [cfg EXCEPT
                !.InputDir = IF @ = "" THEN auto.InputDir ELSE @,
                !.OutputFile = IF @ = OutPath("", <<>>) THEN auto.OutputFile ELSE @,
                !.IncludeGlobs = IF noInclude THEN auto.IncludeGlobs ELSE @,
                !.IncludeNil = IF noInclude THEN auto.IncludeNil ELSE @,
                !.ExcludeGlobs = IF noExclude THEN auto.ExcludeGlobs ELSE @,
                !.ExcludeNil = IF noExclude THEN auto.ExcludeNil ELSE @]

\* the flags of a Config that are set, in the combinations tried
FlagSets == { {}, {"Verbose"}, {"Gzip", "Base64"}, {"Compress", "MaxCompress"} }

\* the Configs made of the given values, each setting given or left at its
\* zero value
ConfigsOf(inputDir, outputFile, include, exclude) ==
    { [InputDir |-> i, OutputFile |-> o,
       IncludeGlobs |-> inc, IncludeNil |-> inc = <<>>,
       ExcludeGlobs |-> exc, ExcludeNil |-> exc = <<>>,
       Verbose |-> "Verbose" \in f, Compress |-> "Compress" \in f,
       MaxCompress |-> "MaxCompress" \in f, Gzip |-> "Gzip" \in f,
       Base64 |-> "Base64" \in f] :
        i \in {"", inputDir}, o \in {OutPath("", <<>>), outputFile},
        inc \in {<<>>, include}, exc \in {<<>>, exclude}, f \in FlagSets }

\* the Configs a caller passes to MergeConfig
ProvidedConfigs ==
    ConfigsOf("in", OutPath("o", OutName), <<<<"*",".","p","y">>>>, <<<<"v">>>>)

\* the auto-loaded Configs: none, or the content of a cpack.yml
AutoConfigs ==
    {<<>>} \cup
    { <<c>> : c \in ConfigsOf("auto", OutPath("new", OutName),
                               <<<<"*","*","/","*",".","g","o">>>>, <<<<"s">>>>) }

\* MergeConfig is called
CallMerge(cfg, autoConfig) ==
    /\ call = NoCall
    /\ call' = [fn |-> "MergeConfig",
                args |-> <<cfg, autoConfig>>,
                ret |-> MergeConfig(cfg, autoConfig)]
    /\ UNCHANGED runVars

CallInit ==
    /\ Init
    /\ tree = Tree1
    /\ ~diskFull

CallNext ==
    \/ \E c \in GlobCases : CallMatch(c[1], c[2])
    \/ \E r \in RuleLists, relPath \in FilePaths : CallIsValidFile(WithRules(r), relPath)
    \/ \E cfg \in ProvidedConfigs, autoConfig \in AutoConfigs : CallMerge(cfg, autoConfig)
    \/ \E r \in DirRuleLists, relPath \in DirPaths : CallProcessDirectory(WithRules(r), relPath)

CallSpec == CallInit /\ [][CallNext]_vars

(***************************************************************************)
(* What a run has written                                                  *)
(***************************************************************************)

\* whether the last run has returned
Returned == pc = "idle" /\ history # <<>>

\* the bytes the processor has handed to the writer chain: what the gzip
\* writer was given, or what the file holds
Handed == IF config.Gzip THEN sinks.gzData ELSE sinks.file

\* the marker that opens the block of a path
StartMarkerOf(relPath) == StartOfFile \o relPath \o MarkerEnd

\* whether a text holds the opening marker of a path
HasBlock(text, relPath) == Contains(text, StartMarkerOf(relPath))

\* whether the run has written a block of the path, to the buffer or to the
\* writer chain
Emitted(relPath) ==
    \/ HasBlock(Str(contentBuffer), relPath)
    \/ HasBlock(Str(Handed), relPath)

\* whether the file the run was asked to write is as it was when the run started
OutputUntouched ==
    /\ (Out \in DOMAIN files) = (Out \in DOMAIN before.files)
    /\ Out \in DOMAIN files => files[Out] = before.files[Out]

(***************************************************************************)
(* The filter                                                              *)
(***************************************************************************)

\* C1: a path that an exclude rule matches is rejected by isValidFile, also
\* when an include rule matches it, and the run writes no block for it.
C1_ExcludeWins ==
    \A p \in Range(visited) :
        ExcludeMatches(config, p)
            => ~isValidFile(config, p) /\ p \notin processedFiles /\ ~Emitted(p)

\* a run has returned without error, it wrote blocks, and it met a file that
\* both an include rule and an exclude rule match
C1_Witness ==
    /\ Returned /\ result = "ok" /\ processedFiles # {}
    /\ \E p \in Range(visited) :
          /\ Entry(p).kind = "file"
          /\ ExcludeMatches(config, p)
          /\ IncludeMatches(config, p)

(***************************************************************************)
(* The configuration errors                                                *)
(***************************************************************************)

\* C2: a run with Base64 and without Gzip returns an error and walks nothing:
\* no path is visited or read, and both lists of the summary stay empty.
C2_Base64NeedsGzip ==
    (given.Base64 /\ ~given.Gzip) =>
        /\ visited = <<>> /\ reads = {} /\ todo = <<>>
        /\ summary.ProcessedFiles = <<>> /\ summary.SkippedFiles = <<>>
        /\ Returned => result \notin {"ok", "none"}

\* a run with Base64 and without Gzip has returned the error of the flags
C2_Witness ==
    Returned /\ given.Base64 /\ ~given.Gzip /\ result = ErrBase64

\* C3: when a run returns the error of Base64 without Gzip, the output file
\* is as it was before the run: not created, not truncated, not written.
C3_ErrorBeforeOutput ==
    (Returned /\ result = ErrBase64) => OutputUntouched

\* C4: a run whose input directory does not exist returns 'input directory
\* does not exist' with the output directory and the output file as they
\* were: a file that was absent is still absent.
C4_MissingInput ==
    (pc # "validate" /\ given.InputDir = "missing") =>
        /\ Returned /\ result = ErrNoInput
        /\ dirs = before.dirs
        /\ files = before.files

\* a run on a missing input directory has returned, and the output file it
\* was asked for, in a directory that does not exist, is absent
C4_Witness ==
    /\ Returned /\ given.InputDir = "missing" /\ result = ErrNoInput
    /\ Out.dir \notin dirs /\ Out \notin DOMAIN files

(***************************************************************************)
(* The encoding chain                                                      *)
(***************************************************************************)

\* the two runs of a behaviour: one with Gzip and Base64, not verbose, its
\* output file outside the input directory, and then the same invocation
\* without the two flags; both returned without error
EncodedThenPlain ==
    /\ pc = "idle" /\ Len(history) = 2
    /\ history[1].given.Gzip /\ history[1].given.Base64
    /\ ~history[1].given.Verbose
    /\ history[1].given.OutputFile.dir # "in"
    /\ history[2].given = PlainOf(history[1].given)
    /\ history[1].result = "ok" /\ history[2].result = "ok"

\* the output file of the first run, base64-decoded
Decoded == B64Decode(files[history[1].config.OutputFile])

\* C5: base64-decoding and then gzip-decompressing the output of a run with
\* Gzip and Base64 yields the bytes of the output of the run on the same
\* input without the two flags (not verbose, output outside the input).
C5_RoundTrip ==
    EncodedThenPlain =>
        /\ Decoded.ok
        /\ Gunzip(Decoded.data).ok
        /\ Gunzip(Decoded.data).data = files[history[2].config.OutputFile]

\* both runs have returned and the plain output holds two blocks at least
C5_Witness ==
    /\ EncodedThenPlain
    /\ Cardinality(processedFiles) >= 2
    /\ files[history[2].config.OutputFile] # <<>>
    /\ files[history[1].config.OutputFile] # files[history[2].config.OutputFile]

(***************************************************************************)
(* The verbose run                                                         *)
(***************************************************************************)

\* the part of what was handed to the writer chain that precedes the buffer
BeforeBuffer == SubSeq(Handed, 1, Len(Handed) - Len(contentBuffer))

\* C6: in a verbose run nothing reaches the writer chain during the walk and
\* every block is in the buffer; after the walk the summary is written, then
\* the whole buffer in one write, so the summary precedes every block.
C6_VerboseBuffered ==
    config.Verbose =>
        /\ pc \in {"walk", "summary"} =>
              /\ sinks.writes = 0 /\ sinks.file = <<>> /\ Handed = <<>>
              /\ \A p \in processedFiles : HasBlock(Str(contentBuffer), p)
        /\ pc = "return" =>
              /\ sinks.writes = 2
              /\ \E d \in Durations :
                    Handed = Bytes(SummaryOutput(summary, d)) \o contentBuffer
              /\ \A p \in processedFiles : ~HasBlock(Str(BeforeBuffer), p)

\* a verbose run has written its summary and its buffer, which holds blocks
C6_Witness ==
    /\ config.Verbose /\ pc = "return"
    /\ Cardinality(processedFiles) >= 2
    /\ contentBuffer # <<>>

(***************************************************************************)
(* At most one block for a path                                            *)
(***************************************************************************)

\* the positions of s where sub occurs
Occurrences(s, sub) == { i \in 1..Len(s) : OccursAt(s, i, sub) }

\* how many times the path is in a list of paths
TimesIn(list, relPath) == Cardinality({ i \in DOMAIN list : list[i] = relPath })

\* whether a file the run has read holds the text that opens a block
QuotesMarker == \E q \in reads : Contains(Str(ReadFile(q).content), StartMarker)

\* the statement of C7 as it stands: the output of a run holds the line that
\* opens the block of a path once at most
C7_AtMostOneMarker ==
    Returned =>
        \A p \in Range(visited) :
            Cardinality(Occurrences(Str(Handed), StartMarkerOf(p))) <= 1

\* C7: a run emits a block for a path once at most, also when a file is
\* reached through a symlink and directly: the path is once at most in the
\* processed list, and the output holds its opening line once at most unless
\* a packed file quotes such a line itself.
C7_AtMostOneBlock ==
    Returned =>
        \A p \in Range(visited) :
            /\ TimesIn(visited, p) = 1
            /\ TimesIn(summary.ProcessedFiles, p) <= 1
            /\ ~QuotesMarker =>
                  Cardinality(Occurrences(Str(Handed), StartMarkerOf(p))) <= 1

\* a run has returned without error with a block for a.go and a block for
\* l.go, the symlink to a.go, in its output
C7_Witness ==
    /\ Returned /\ result = "ok" /\ ~QuotesMarker
    /\ HasBlock(Str(Handed), P_a)
    /\ HasBlock(Str(Handed), P_l)

(***************************************************************************)
(* Symlink cycles                                                          *)
(***************************************************************************)

\* the symlinks of the tree that point to the directory that holds them or to
\* a directory above it
CycleLinks ==
    { p \in DOMAIN tree :
        /\ tree[p].kind = "symlink"
        /\ Entry(tree[p].target).kind = "dir"
        /\ tree[p].target = Root \/ HasPrefix(p, tree[p].target \o <<"/">>) }

\* the paths of a list of the summary, without the note of a read error
Listed(list) ==
    { list[i] : i \in DOMAIN list }

\* whether the walk has dealt with the path as with a file: it is in the
\* skipped list, alone or with the note of a read error
TakenAsFile(relPath) ==
    \/ relPath \in Listed(summary.SkippedFiles)
    \/ relPath \o ReadErrorNote \in Listed(summary.SkippedFiles)

\* whether the run is one that walks and that no write fails in
WalksClean ==
    /\ ReachesWalk(given.InputDir, given.OutputFile.dir)
    /\ ~(given.Base64 /\ ~given.Gzip)
    /\ ~diskFull

\* C8: the walk ends on a tree with a symlink to its own directory or to a
\* directory above: every path is visited once at most and the paths visited
\* and yet to visit are distinct paths of the finite tree, so the walk makes
\* no more steps than the tree has paths; a symlink to a directory is dealt
\* with as a file and never entered; and the run returns nil unless a write
\* fails.
C8_CycleTerminates ==
    /\ \A i, j \in DOMAIN visited : visited[i] = visited[j] => i = j
    /\ \A i, j \in DOMAIN todo : todo[i] = todo[j] => i = j
    /\ Range(visited) \cup Range(todo) \subseteq AllPaths
    /\ pc = "walk" =>
          /\ Range(visited) \cap Range(todo) = {}
          /\ Len(visited) + Len(todo) <= Cardinality(AllPaths)
    /\ \A p \in Range(visited) \cap CycleLinks : TakenAsFile(p) /\ p \notin processedFiles
    /\ (Returned /\ WalksClean) => result = "ok"

\* a run has returned nil after its walk met a symlink to the directory that
\* holds it (or to one above) and visited files after it
C8_Witness ==
    /\ Returned /\ result = "ok"
    /\ \E i \in DOMAIN visited :
          /\ visited[i] \in CycleLinks
          /\ i < Len(visited)
    /\ processedFiles # {}

(***************************************************************************)
(* Read failures                                                           *)
(***************************************************************************)

\* whether the next step of the walk is processFile on a file that the filter
\* accepts and os.ReadFile fails on
ReadFails ==
    /\ pc = "walk" /\ todo # <<>>
    /\ Head(todo) \notin processedFiles
    /\ ~IsDir(Head(todo))
    /\ isValidFile(config, Head(todo))
    /\ ~ReadFile(Head(todo)).ok

\* the step of a failed read: one entry more in the skipped list, the path
\* with its note, and nothing else of the run changes; the walk goes on with
\* the next path
SkippedWithNote ==
    /\ summary' = [summary EXCEPT
                      !.SkippedFiles = Append(@, Head(todo) \o ReadErrorNote)]
    /\ sinks' = sinks /\ files' = files /\ contentBuffer' = contentBuffer
    /\ processedFiles' = processedFiles
    /\ pc' = "walk" /\ todo' = Tail(todo) /\ result' = result

\* the paths the run has read without success
FailedReads == { p \in reads : ~ReadFile(p).ok }

\* the files a run that went through has visited, that the filter accepts and
\* that can be read
Readable ==
    { p \in Range(visited) : ~IsDir(p) /\ isValidFile(config, p) /\ ReadFile(p).ok }

\* C9: a failed read of an accepted file does not end the run.  The step
\* appends '<relPath> (read error)' to the skipped list and changes neither
\* the processed list, the byte count, the buffer nor the output, and the
\* walk goes on; the path has no block; and a run in which no write fails
\* returns nil with a block for every accepted file that can be read, also
\* for those after the failed one.
C9_ReadFailureSkipped ==
    /\ [][ReadFails => SkippedWithNote]_vars
    /\ [](\A p \in FailedReads :
              /\ TimesIn(summary.SkippedFiles, p \o ReadErrorNote) = 1
              /\ TimesIn(summary.ProcessedFiles, p) = 0
              /\ p \notin processedFiles
              /\ ~Emitted(p))
    /\ []((Returned /\ WalksClean /\ FailedReads # {}) =>
              /\ result = "ok"
              /\ \A p \in Readable : p \in processedFiles /\ Emitted(p))

\* a run on the tree where a.go cannot be read has returned nil: the read of
\* a.go failed, and s/b.go, visited after it, has its block in the output
C9_Witness ==
    /\ Returned /\ result = "ok"
    /\ P_a \in FailedReads
    /\ P_sb \in processedFiles /\ HasBlock(Str(Handed), P_sb)
    /\ \E i, j \in DOMAIN visited : i < j /\ visited[i] = P_a /\ visited[j] = P_sb

(***************************************************************************)
(* Markers in compressed output                                            *)
(***************************************************************************)

\* C10: the output of a run with Compress and without Verbose that returned
\* nil holds neither '--- START OF FILE:' nor '--- END OF FILE:'.
C10_NoMarkers ==
    (Returned /\ result = "ok" /\ config.Compress /\ ~config.Verbose) =>
        /\ ~Contains(Str(Handed), StartMarker)
        /\ ~Contains(Str(Handed), EndMarker)

(***************************************************************************)
(* Maximum compression                                                     *)
(***************************************************************************)

\* whether the text holds the start of a line comment or of a block comment
HasComment(text) ==
    Contains(text, <<"/", "/">>) \/ Contains(text, <<"/", "*">>)

\* C11: the output of a run with MaxCompress that returned nil holds no
\* '//' comment and no '/* */' comment of the files it packed, whether
\* Compress is set or not.
C11_MaxCompressStrips ==
    (Returned /\ result = "ok" /\ config.MaxCompress) => ~HasComment(Str(Handed))

\* the same for the runs with MaxCompress and Compress, which is as far as
\* the code goes
C11_WithCompress ==
    (Returned /\ result = "ok" /\ config.MaxCompress /\ config.Compress)
        => ~HasComment(Str(Handed))

(***************************************************************************)
(* Whitespace in compressed output                                         *)
(***************************************************************************)

\* whether the run has packed a file whose content, compressed, is empty
PackedEmpty ==
    \E p \in processedFiles : BlockContent(config, ReadFile(p).content) = <<>>

\* C12: the output of a run with Compress that returned nil never holds two
\* spaces in a row.
C12_NoDoubleSpace ==
    (Returned /\ result = "ok" /\ config.Compress)
        => ~Contains(Str(Handed), <<" ", " ">>)

\* the same for the runs that packed no file with empty content (the output
\* file, when it lies in the input directory, is empty when it is read)
C12_UnlessEmpty ==
    (Returned /\ result = "ok" /\ config.Compress /\ ~PackedEmpty
        /\ Out.dir # "in")
        => ~Contains(Str(Handed), <<" ", " ">>)

(***************************************************************************)
(* matchGlobPattern                                                        *)
(***************************************************************************)

\* whether matchGlobPattern was called, and on what
Matched == call.fn = "matchGlobPattern"
CallPattern == call.args[1]
CallPath == call.args[2]

\* how many directories deep the path is
Depth(path) == Cardinality({ i \in DOMAIN path : path[i] = "/" })

\* C13: for the pattern **/*.go and every path that ends in .go,
\* matchGlobPattern returns true, however many directories deep the path is.
C13_AnyDepth ==
    (Matched /\ CallPattern = GoPattern /\ HasSuffix(CallPath, <<".", "g", "o">>))
        => call.ret.matched

\* the same for the paths with no line break in a directory's name
C13_PlainDirs ==
    (Matched /\ CallPattern = GoPattern /\ HasSuffix(CallPath, <<".", "g", "o">>)
        /\ ~Contains(CallPath, <<"\n">>))
        => call.ret.matched

\* whether the string has neither * nor ?
IsLiteral(pattern) == \A i \in DOMAIN pattern : pattern[i] \notin {"*", "?"}

\* a path or pattern, cleaned, with its extension in lower case
Normal(p) ==
    LET q == Clean(p)
    IN SubSeq(q, 1, Len(q) - Len(Ext(q))) \o ToLower(Ext(q))

Filtered == call.fn = "isValidFile"
CallConfig == call.args[1]
CallRelPath == call.args[2]

\* whether a rule of the list matches the file: a rule without "/" on the
\* base name of the path, a rule with "/" on the whole path
RuleHits(rules, relPath) ==
    \E i \in DOMAIN rules :
        IF \E k \in DOMAIN rules[i] : rules[i][k] = "/"
        THEN matchGlobPattern(rules[i], relPath)
        ELSE matchGlobPattern(rules[i], Base(relPath))

\* C15: isValidFile matches a rule without "/" against the base name of the
\* file and a rule with "/" against the whole relative path, in the exclude
\* list and in the include list alike: the file is accepted when no exclude
\* rule hits it so, and the include list is empty or one of its rules does.
C15_RuleSubject ==
    Filtered =>
        (call.ret <=>
            /\ ~RuleHits(CallConfig.ExcludeGlobs, CallRelPath)
            /\ \/ CallConfig.IncludeGlobs = <<>>
               \/ RuleHits(CallConfig.IncludeGlobs, CallRelPath))

\* an include rule without "/" has accepted a file two directories down,
\* whose whole path it does not match, past an exclude rule with "/" that
\* was tried on the whole path
C15_Witness ==
    /\ Filtered /\ call.ret
    /\ Depth(CallRelPath) = 2
    /\ \E i \in DOMAIN CallConfig.IncludeGlobs :
          LET rule == CallConfig.IncludeGlobs[i]
          IN /\ ~Contains(rule, <<"/">>)
             /\ ~matchGlobPattern(rule, CallRelPath)
    /\ \E i \in DOMAIN CallConfig.ExcludeGlobs :
          LET rule == CallConfig.ExcludeGlobs[i]
          IN /\ Contains(rule, <<"/">>)
             /\ ~matchGlobPattern(rule, CallRelPath)

(***************************************************************************)
(* A run without include rules                                             *)
(***************************************************************************)

\* whether the last run has returned nil and had an empty include list
WentThroughWithoutIncludes ==
    Returned /\ result = "ok" /\ config.IncludeGlobs = <<>>

\* whether an exclude rule of the run matches the directory
DirExcluded(relPath) ==
    \E i \in DOMAIN config.ExcludeGlobs : matchGlobPattern(config.ExcludeGlobs[i], relPath)

\* every entry of every visited directory that no exclude rule matches has
\* been visited
DescendedEverywhere ==
    \A d \in Range(visited) :
        (Entry(d).kind = "dir" /\ ~DirExcluded(d)) =>
            \A p \in AllPaths : (p # Root /\ Dir(p) = d) => p \in Range(visited)

\* the visited paths that are not directories and that no exclude rule matches
VisitedUnexcluded ==
    { p \in Range(visited) :
        Entry(p).kind # "dir" /\ ~RuleHits(config.ExcludeGlobs, p) }

Ascending(list) ==
    \A i, j \in DOMAIN list : i < j => ~StrLess(list[j], list[i])

\* whether two lists hold the same strings, each as many times
SameEntries(l, m) ==
    /\ Len(l) = Len(m)
    /\ \A x \in Range(l) \cup Range(m) : TimesIn(l, x) = TimesIn(m, x)

\* a list as the summary shows it: one entry a line, or, in a run with
\* Compress, the same text compressed
Shown(list) ==
    IF config.Compress THEN compressString(Join(list, <<"\n">>), config)
    ELSE Join(list, <<"\n">>)

\* C17: the step that writes the summary of a verbose run puts the processed
\* list and the skipped list in ascending byte order, each with the entries
\* the walk gave it, and when the write succeeds the text handed to the
\* writer chain shows both lists in that order.
C17_SummarySorted ==
    [][pc = "summary" =>
          /\ config.Verbose
          /\ Ascending(summary'.ProcessedFiles)
          /\ Ascending(summary'.SkippedFiles)
          /\ SameEntries(summary.ProcessedFiles, summary'.ProcessedFiles)
          /\ SameEntries(summary.SkippedFiles, summary'.SkippedFiles)
          /\ pc' = "flush" =>
                \E written \in {Str(IF config.Gzip THEN sinks'.gzData ELSE sinks'.file)},
                   processed \in {Shown(summary'.ProcessedFiles)},
                   skipped \in {Shown(summary'.SkippedFiles)} :
                    /\ Contains(written, processed)
                    /\ Contains(written, skipped)
    ]_vars

\* a verbose run has returned nil whose walk visited s/b.go before s.go and
\* packed both: the summary lists s.go first
C17_Witness ==
    /\ Returned /\ result = "ok" /\ config.Verbose /\ ~config.Compress
    /\ \E i, j \in DOMAIN visited : i < j /\ visited[i] = P_sb /\ visited[j] = P_sgo
    /\ \E i, j \in DOMAIN summary.ProcessedFiles :
          i < j /\ summary.ProcessedFiles[i] = P_sgo /\ summary.ProcessedFiles[j] = P_sb
    /\ Contains(Str(Handed), P_sgo \o <<"\n">> \o P_sb \o <<"\n">>)

(***************************************************************************)
(* Rules that do not compile                                               *)
(***************************************************************************)

\* whether the rule is text regexp.Compile takes
Compiles(rule) == ValidUTF8(rule, 1)

\* whether the run has a rule that does not compile
HasBadRule ==
    \/ \E i \in DOMAIN config.IncludeGlobs : ~Compiles(config.IncludeGlobs[i])
    \/ \E i \in DOMAIN config.ExcludeGlobs : ~Compiles(config.ExcludeGlobs[i])

\* the rules of a list that compile, in their order
Compiling(rules) ==
    [i \in 1..Cardinality({k \in DOMAIN rules : Compiles(rules[k])}) |->
        rules[CHOOSE k \in DOMAIN rules :
                /\ Compiles(rules[k])
                /\ Cardinality({j \in 1..k : Compiles(rules[j])}) = i]]

\* the filter's verdict on a file from the rules that compile alone: no
\* exclude rule among them hits the file, and the include list is empty or
\* an include rule among them hits it
TakenByCompiling(relPath) ==
    /\ ~RuleHits(Compiling(config.ExcludeGlobs), relPath)
    /\ \/ config.IncludeGlobs = <<>>
       \/ RuleHits(Compiling(config.IncludeGlobs), relPath)

\* whether an exclude rule that compiles matches the directory
DirExcludedByCompiling(relPath) ==
    \E i \in DOMAIN config.ExcludeGlobs :
        /\ Compiles(config.ExcludeGlobs[i])
        /\ matchGlobPattern(config.ExcludeGlobs[i], relPath)

\* C18: a run with a rule that does not compile, in which no write fails,
\* returns nil; the walk went into every directory that the rules that
\* compile let through; every visited file has the verdict of the rules that
\* compile, the rest of each list tried after the one that does not; and
\* every file they take that can be read has its block.
C18_BadRuleSkipped ==
    (Returned /\ WalksClean /\ HasBadRule) =>
        /\ result = "ok"
        /\ \A d \in Range(visited) :
              (/\ Entry(d).kind = "dir"
               /\ ~DirExcludedByCompiling(d)
               /\ isValidDir(config, d)) =>
                  \A p \in AllPaths : (p # Root /\ Dir(p) = d) => p \in Range(visited)
        /\ \A p \in Range(visited) :
              Entry(p).kind # "dir" =>
                  IF TakenByCompiling(p)
                  THEN /\ p \notin Listed(summary.SkippedFiles)
                       /\ ReadFile(p).ok => Emitted(p)
                  ELSE p \in Listed(summary.SkippedFiles) /\ ~Emitted(p)

\* a run with a rule that does not compile at the head of each list has
\* returned nil: s/b.go, which the second include rule matches, has its
\* block, and a_t.go, which the second exclude rule matches, was skipped
C18_Witness ==
    /\ Returned /\ result = "ok" /\ HasBadRule
    /\ ~Compiles(config.IncludeGlobs[1]) /\ ~Compiles(config.ExcludeGlobs[1])
    /\ Emitted(P_sb) /\ P_sb \in processedFiles
    /\ P_at \in Listed(summary.SkippedFiles) /\ ~Emitted(P_at)
    /\ P_vc \in Range(visited)

(***************************************************************************)
(* Brace alternatives                                                      *)
(***************************************************************************)

\* the patterns a pattern with one brace group stands for, one for each
\* alternative of the group; the pattern itself when it has no group
BraceExpand(pattern) ==
    LET open == { i \in DOMAIN pattern : pattern[i] = "{" }
        close == { j \in DOMAIN pattern : pattern[j] = "}" }
    IN IF open = {} \/ close = {} THEN {pattern}
       ELSE LET i == CHOOSE i \in open : \A k \in open : i <= k
                j == CHOOSE j \in close : \A k \in close : k <= j
                alternatives == Split(SubSeq(pattern, i + 1, j - 1), <<",">>)
            IN { SubSeq(pattern, 1, i - 1) \o alternatives[k] \o From(pattern, j + 1) :
                    k \in DOMAIN alternatives }

\* C19: a pattern with a brace group matches every path that the pattern
\* with one of the group's alternatives in place of the group matches:
\* **/*.{yaml,yml} matches what **/*.yaml or **/*.yml matches.
C19_BraceAlternatives ==
    (/\ Matched
     /\ Contains(CallPattern, <<"{">>)
     /\ \E q \in BraceExpand(CallPattern) : matchGlobPattern(q, CallPath))
        => call.ret.matched

\* what the code does with a brace group: the braces and commas are literal
\* text, so the pattern matches a path only if the path holds the group as
\* it is written
C19_BracesLiteral ==
    (Matched /\ Contains(CallPattern, <<"{">>) /\ call.ret.matched)
        => \E i \in DOMAIN CallPattern :
              /\ CallPattern[i] = "{"
              /\ HasSuffix(CallPath, From(CallPattern, i))

(***************************************************************************)
(* Merging with the auto-loaded configuration                              *)
(***************************************************************************)

\* whether MergeConfig was called, and on what
Merged == call.fn = "MergeConfig"
Provided == call.args[1]
AutoLoaded == call.args[2]

StringSettings == {"InputDir", "OutputFile"}
ListSettings == {"IncludeGlobs", "ExcludeGlobs"}
FlagSettings == {"Verbose", "Compress", "MaxCompress", "Gzip", "Base64"}

\* whether a Config gives the setting: a non-empty string, a non-empty
\* list, a flag that is set
Gives(cfg, setting) ==
    IF setting = "InputDir" THEN cfg.InputDir # ""
    ELSE IF setting = "OutputFile" THEN cfg.OutputFile # OutPath("", <<>>)
    ELSE IF setting \in ListSettings THEN cfg[setting] # <<>>
    ELSE cfg[setting]

\* whether the result has the provided value of a given setting and the
\* auto-loaded value of a setting not given
ProvidedElseAuto(setting) ==
    call.ret[setting] =
        IF Gives(Provided, setting) THEN Provided[setting] ELSE AutoLoaded[1][setting]

\* C20: MergeConfig returns the provided Config when the auto-loaded one is
\* nil; otherwise every setting of the result has the provided value when
\* the provided Config gives it, and the auto-loaded value when it does not.
C20_ProvidedElseAuto ==
    Merged =>
        IF AutoLoaded = <<>> THEN call.ret = Provided
        ELSE \A setting \in StringSettings \cup ListSettings \cup FlagSettings :
                ProvidedElseAuto(setting)

\* what the code does: as C20 for the strings and the lists, and for the
\* flags when the provided Config gives nothing but, at most, InputDir; the
\* flags of a provided Config that gives anything else are the result's
\* flags, whatever the auto-loaded Config sets
C20_FlagsOfProvided ==
    Merged =>
        IF AutoLoaded = <<>> THEN call.ret = Provided
        ELSE /\ \A setting \in StringSettings \cup ListSettings : ProvidedElseAuto(setting)
             /\ \A flag \in FlagSettings :
                   call.ret[flag] =
                       IF \E setting \in {"OutputFile"} \cup ListSettings \cup FlagSettings :
                             Gives(Provided, setting)
                       THEN Provided[flag]
                       ELSE AutoLoaded[1][flag]

(***************************************************************************)
(* Pruning                                                                 *)
(***************************************************************************)

\* whether processDirectory was called, and on what
Pruned == call.fn = "processDirectory"
CallDir == call.args[2]

\* whether the directory is the root
IsRoot(dir) == dir = <<>> \/ dir = <<".">>

\* whether a path lies below a directory, at any depth
Inside(relPath, dir) == IsRoot(dir) \/ HasPrefix(relPath, dir \o <<"/">>)

\* the directories that the called one is, or is an ancestor of, that no
\* exclude rule matches and that hold a file the file filter accepts
HoldsAccepted(cfg, dir) ==
    { d \in DirPaths :
        /\ d = dir \/ (~IsRoot(d) /\ Inside(d, dir))
        /\ ~shouldIgnoreDir(cfg, d)
        /\ \E p \in FilePaths : Inside(p, d) /\ isValidFile(cfg, p) }

\* C21: isValidDir accepts a directory that is, or is an ancestor of, a
\* directory that no exclude rule matches and below which the file filter
\* accepts some file.
C21_PruningConservative ==
    (Pruned /\ HoldsAccepted(CallConfig, CallDir) # {}) => call.ret.valid

\* the directory part isValidDir compares a directory with: what precedes
\* the first "**" of the rule, or the rule's directory
DirPart(rule) ==
    IF Contains(rule, <<"*", "*">>) THEN Split(rule, <<"*", "*">>)[1] ELSE Dir(rule)

\* C21 for include rules whose directory part is literal: no "*" and no
\* "?" in it
C21_LiteralDirParts ==
    (/\ Pruned
     /\ \A i \in DOMAIN CallConfig.IncludeGlobs :
           LET part == DirPart(CallConfig.IncludeGlobs[i])
           IN ~Contains(part, <<"*">>) /\ ~Contains(part, <<"?">>)
     /\ HoldsAccepted(CallConfig, CallDir) # {})
        => call.ret.valid

\* C22: processDirectory does not return SkipDir for the root directory,
\* whatever the include and exclude rules.
C22_RootDescends ==
    (Pruned /\ IsRoot(CallDir)) => ~call.ret.skipDir

\* what the code gives the root: isValidDir accepts it whatever the include
\* rules, and processDirectory returns SkipDir for it exactly when an
\* exclude rule matches "."
C22_RootUnlessExcluded ==
    (Pruned /\ IsRoot(CallDir)) =>
        /\ call.ret.valid
        /\ call.ret.skipDir <=>
              \E i \in DOMAIN CallConfig.ExcludeGlobs :
                  matchGlobPattern(CallConfig.ExcludeGlobs[i], <<".">>)

(***************************************************************************)
(* The writer chain                                                        *)
(***************************************************************************)

\* whether the run has built its writer chain: the file is created and the
\* step that stacks the writers on it is done
ChainBuilt == sinks.chain # <<>> /\ pc # "chain"

\* base64.StdEncoding of a whole text, the last group padded
StdEncoded(b) ==
    LET n == 3 * (Len(b) \div 3)
    IN B64Groups(SubSeq(b, 1, n))
        \o (IF n = Len(b) THEN <<>> ELSE B64Tail(SubSeq(b, n + 1, Len(b))))

\* the gzip stream of a text
GzipStream(d) == GzipHeader \o DeflateStored(d) \o GzipTrailer(d)

\* C23 as stated: in a run with Gzip and Base64 the processor writes to the
\* base64 encoder, which writes to the gzip writer, which writes to the
\* file, so the file holds a gzip stream.
C23_Base64Outermost ==
    (ChainBuilt /\ config.Gzip /\ config.Base64) =>
        /\ sinks.chain = <<"base64", "gzip", "file">>
        /\ (Returned /\ result = "ok") =>
              SubSeq(sinks.file, 1, Len(GzipHeader)) = GzipHeader

\* C23, the order turned round: the file is the last writer of every chain;
\* with Gzip the processor writes to the gzip writer; with Base64 as well
\* the gzip writer writes to the base64 encoder, which writes to the file.
\* The file of such a run that returned nil holds the base64 text of the
\* gzip stream of the bytes the processor wrote.
C23_GzipOutermost ==
    ChainBuilt =>
        /\ sinks.chain =
              IF config.Gzip /\ config.Base64 THEN <<"gzip", "base64", "file">>
              ELSE IF config.Gzip THEN <<"gzip", "file">>
              ELSE <<"file">>
        /\ (Returned /\ result = "ok" /\ config.Gzip /\ config.Base64) =>
              sinks.file = StdEncoded(GzipStream(sinks.gzData))
        /\ (Returned /\ result = "ok" /\ config.Gzip /\ ~config.Base64) =>
              sinks.file = GzipStream(sinks.gzData)

\* a run with Gzip and Base64 has returned nil with a block in what it
\* wrote, and its file does not start with the gzip header
C23_Witness ==
    /\ Returned /\ result = "ok" /\ config.Gzip /\ config.Base64
    /\ HasBlock(Str(sinks.gzData), P_sb)
    /\ sinks.chain[1] = "gzip" /\ sinks.chain[2] = "base64"
    /\ sinks.file # <<>>
    /\ SubSeq(sinks.file, 1, Len(GzipHeader)) # GzipHeader

\* the writers of the run in the order they were made: the file, then the
\* base64 encoder, then the gzip writer
Constructed ==
    <<"file">>
        \o (IF config.Base64 THEN <<"base64">> ELSE <<>>)
        \o (IF config.Gzip THEN <<"gzip">> ELSE <<>>)

\* a list, last entry first
Reversed(list) == [i \in DOMAIN list |-> list[Len(list) + 1 - i]]

\* whether the writer has been closed
IsClosed(writer) == writer \in Range(sinks.closes)

\* C24: a run that returned nil has closed the writers it made in the
\* reverse of the order it made them in, the gzip writer first and the file
\* last, each once; and once a writer is closed the processor writes no
\* more: the bytes handed to the gzip writer stay as they are, and the file
\* takes no byte after the writer above it is closed, but for what the
\* Close of the gzip writer sends down through the open encoder.
C24_ClosedInReverse ==
    /\ []((Returned /\ result = "ok") => sinks.closes = Reversed(Constructed))
    /\ [][(pc # "idle" /\ sinks.closes # <<>>) =>
              /\ sinks'.writes = sinks.writes
              /\ sinks'.gzData = sinks.gzData
              /\ sinks'.b64buf # sinks.b64buf => ~IsClosed("base64")
              /\ sinks'.file # sinks.file => ~IsClosed(sinks.chain[Len(sinks.chain) - 1])
       ]_vars

\* a run with Gzip and Base64 has returned nil after writing: the gzip
\* writer was closed, then the encoder, then the file
C24_Witness ==
    /\ Returned /\ result = "ok"
    /\ config.Gzip /\ config.Base64
    /\ sinks.writes > 0 /\ sinks.file # <<>>
    /\ sinks.closes = <<"gzip", "base64", "file">>

(***************************************************************************)
(* The errors a run returns                                                *)
(***************************************************************************)

\* the errors of the steps before the walk: validation of the input
\* directory, creation of the output directory and file, the flag check
\* made while the writers are stacked
SetupErrors == {ErrNoInput, ErrMkdir, ErrCreate, ErrBase64}

\* the errors of a write to, or a Close of, the writer chain
OutputErrors ==
    {ErrSeparator, ErrContent, ErrSummary, ErrFlush, ErrGzipClose, ErrBase64Close}

\* C25 as stated: a run returns nil or an error of the steps before the
\* walk, nothing else.
C25_SetupErrorsOnly ==
    Returned => result \in {"ok"} \cup SetupErrors

\* C25, with the output errors apart: a run returns nil, an error of the
\* steps before the walk, or the error of a failed write or Close of the
\* output, the last only when the disk is full; a step of the walk ends the
\* run only by a failed write of a block in a run that is not verbose; so
\* filtering, reading and transforming a file never end it.
C25_SetupOrOutputErrors ==
    /\ [](Returned =>
            /\ result \in {"ok"} \cup SetupErrors \cup OutputErrors
            /\ result \in OutputErrors => diskFull)
    /\ [][(pc = "walk" /\ pc' = "idle") =>
              /\ result' \in {ErrSeparator, ErrContent}
              /\ diskFull /\ ~config.Verbose
              /\ sinks'.err
              /\ isValidFile(config, Head(todo)) /\ ReadFile(Head(todo)).ok
       ]_vars

\* a run on the tree with a file that cannot be read has gone past it and
\* past a rejected file, and then returned the error of a failed write of a
\* block
C25_Witness ==
    /\ Returned /\ result \in {ErrSeparator, ErrContent}
    /\ diskFull
    /\ FailedReads # {}
    /\ summary.SkippedFiles # <<>>

(***************************************************************************)
(* The record of the visited files                                         *)
(***************************************************************************)

\* the visited paths that are not directories
VisitedFiles == { p \in Range(visited) : Entry(p).kind # "dir" }

\* how many entries of the two lists are of the path: in the skipped list a
\* path stands as it is or with the read error note
Records(relPath) ==
    [processed |-> TimesIn(summary.ProcessedFiles, relPath),
     skipped |-> TimesIn(summary.SkippedFiles, relPath)
                    + TimesIn(summary.SkippedFiles, relPath \o ReadErrorNote)]

\* the line of the summary with the number of files
TotalFilesLine ==
    <<"T","o","t","a","l"," ","F","i","l","e","s",":"," ">>
        \o Itoa(Len(summary.ProcessedFiles) + Len(summary.SkippedFiles))

RejectedDirs ==
    { d \in Range(visited) : Entry(d).kind = "dir" /\ processDirectory(config, d) }

\* whether the run has a trace of the path: a visit, a visit to come, a
\* read, a block, an entry in a list
Touched(relPath) ==
    \/ relPath \in Range(visited) \/ relPath \in Range(todo)
    \/ relPath \in reads \/ relPath \in processedFiles
    \/ Emitted(relPath)
    \/ Records(relPath).processed + Records(relPath).skipped > 0

\* the bytes of the files in a list of paths
RECURSIVE BytesOf(_)
BytesOf(list) ==
    IF list = <<>> THEN 0
    ELSE Len(ReadFile(Head(list)).content) + BytesOf(Tail(list))

\* C27: nothing below a directory that processDirectory rejected is visited,
\* read, emitted or listed, and a directory, rejected or not, has no block
\* and no entry in a list; the byte total is that of the processed files,
\* none of which lies below a rejected directory.
C27_RejectedPruned ==
    /\ \A d \in RejectedDirs :
          \A p \in AllPaths : (p # d /\ Inside(p, d)) => ~Touched(p)
    /\ \A d \in Range(visited) :
          Entry(d).kind = "dir" =>
              /\ ~Emitted(d) /\ d \notin reads
              /\ Records(d).processed + Records(d).skipped = 0
    /\ Out.dir # "in" => summary.TotalBytes = BytesOf(summary.ProcessedFiles)

\* a run has returned nil that rejected the directory v, by an exclude rule,
\* and so left out v/c.go, which its file filter accepts
C27_Witness ==
    /\ Returned /\ result = "ok"
    /\ P_v \in RejectedDirs /\ shouldIgnoreDir(config, P_v)
    /\ isValidFile(config, P_vc) /\ ~Touched(P_vc)
    /\ summary.TotalBytes > 0

(***************************************************************************)
(* The order of the blocks                                                 *)
(***************************************************************************)

\* the files the run has packed, in the order the walk visited them
PackedInOrder == SelectSeq(visited, LAMBDA p : p \in processedFiles)

\* the block of a file: the line that opens it, its content, the line that
\* closes it; in a run with Compress the content compressed and the lines
\* set off by one space
BlockOf(relPath) ==
    IF config.Compress
    THEN Bytes(StartOfFile \o relPath \o MarkerEnd \o <<" ">>)
            \o compressContent(ReadFile(relPath).content, config)
            \o Bytes(<<" ">> \o EndOfFile \o relPath \o MarkerEnd \o <<" ">>)
    ELSE Bytes(StartOfFile \o relPath \o MarkerEnd \o <<"\n">>)
            \o ReadFile(relPath).content
            \o Bytes(<<"\n">> \o EndOfFile \o relPath \o MarkerEnd \o <<"\n", "\n">>)

\* the blocks of a list of files, one after the other
RECURSIVE BlocksOf(_)
BlocksOf(list) ==
    IF list = <<>> THEN <<>> ELSE BlockOf(Head(list)) \o BlocksOf(Tail(list))

\* whether the buffer of the verbose run has been handed to the writer chain
Flushed == pc \in {"closeGzip", "closeBase64", "return"} \/ (Returned /\ result = "ok")

\* C28: what a run has written is the blocks of the files it has packed, one
\* whole block after the other in the order the walk visited the files and
\* nothing between them: in the writer chain when the run is not verbose, in
\* the buffer when it is, and then, once the buffer is written, at the end
\* of the output after the summary (no write failing, the output outside
\* the input directory).
C28_BlocksInWalkOrder ==
    (~diskFull /\ Out.dir # "in") =>
        \E blocks \in {BlocksOf(PackedInOrder)} :
            IF config.Verbose
            THEN /\ contentBuffer = blocks
                 /\ Flushed => /\ Len(Handed) > Len(blocks)
                                /\ From(Handed, Len(Handed) - Len(blocks) + 1) = blocks
                 /\ ~Flushed /\ pc # "flush" => ~Contains(Str(Handed), StartOfFile)
            ELSE Handed = blocks

\* runs whose walk visited s/b.go before s.go and packed both have returned
\* nil, one verbose: the summary lists s.go first while the block of s/b.go
\* comes first
C28_Witness ==
    /\ Returned /\ result = "ok" /\ config.Verbose /\ ~diskFull /\ Out.dir # "in"
    /\ Len(PackedInOrder) >= 3
    /\ \E i, j \in DOMAIN PackedInOrder :
          i < j /\ PackedInOrder[i] = P_sb /\ PackedInOrder[j] = P_sgo
    /\ \E i, j \in DOMAIN summary.ProcessedFiles :
          i < j /\ summary.ProcessedFiles[i] = P_sgo /\ summary.ProcessedFiles[j] = P_sb
    /\ Contains(Handed, BlockOf(P_sb) \o BlockOf(P_sgo))

(***************************************************************************)
(* The output file as an input                                             *)
(***************************************************************************)

\* whether the run writes its output into the input directory
OutputInsideInput == Out.dir = "in" /\ config.InputDir = "in"

\* C29: no run reads its own output file or writes a block for it, also
\* when the file lies in the input directory.
C29_OutputNotPacked ==
    OutputInsideInput => (Out.name \notin reads /\ ~Emitted(Out.name))

\* what the code does with an output file in the input directory: the walk
\* visits it like any other file, and a run that went through has packed it
\* exactly when its file filter accepts the name
C29_PackedWhenAccepted ==
    (OutputInsideInput /\ Returned /\ result = "ok") =>
        /\ Out.name \in Range(visited)
        /\ Out.name \in processedFiles <=> isValidFile(config, Out.name)

(***************************************************************************)
(* The writers a failed run leaves open                                    *)
(***************************************************************************)

\* whether the run that returned had created its output file
ReturnedWithFile == Returned /\ sinks.chain # <<>>

\* C30: a run that returns after creating its output file, with nil or with
\* an error, has closed every writer it made: the gzip writer, the base64
\* encoder and the file.
C30_AllClosed ==
    ReturnedWithFile => \A writer \in Range(sinks.chain) : IsClosed(writer)

\* what the code closes on every return: the file, by the deferred Close;
\* the writers above it are closed only on the way to the nil return and
\* are left open by every return with an error
C30_FileClosed ==
    ReturnedWithFile =>
        /\ IsClosed("file")
        /\ result = "ok" => \A writer \in Range(sinks.chain) : IsClosed(writer)

====
